---- MODULE Spec2Model ----
(***************************************************************************)
(* A state-machine model of the QuipBot IRC client core: the token-bucket  *)
(* writer, flood protection, the channel-message router, the per-room      *)
(* scheduler, the configuration view and the hot-reload controller.        *)
(* Time is the wall clock read by time.time(), in whole seconds.           *)
(* Strings with structure are kept as tuples of their tokens: a userhost    *)
(* "u@h" is <<"u", "@", "h">>, a mask "n!u@h" is <<"n", "!", "u", "@", "h">>,*)
(* the empty string is <<>>.                                               *)
(***************************************************************************)
EXTENDS Integers, Sequences, FiniteSets, TLC

(***************************************************************************)
(* Bounds of the model.                                                    *)
(***************************************************************************)
MaxSends == 8           \* back-to-back sends explored by the writer specification
MaxBucketTime == 10     \* clock horizon of the writer specification
StartTime == 100        \* time.time() when the bot is constructed
MaxTime == 80           \* seconds of clock explored by the flood specification
RouterTime == 40        \* seconds of clock explored by the router specification
SchedTime == 60         \* seconds of clock explored by the scheduler specification
ContinueFreq == 20      \* ai_continue_freq of the room of the scheduler specification
ReloadTime == 5         \* seconds of clock explored by the reload specification
OldIdle == 3            \* idle_chat_interval in effect before the reload
NewIdle == 6            \* idle_chat_interval of the configuration file
ClockStep == 20         \* seconds between two observations of the clock
FloodLines == 3         \* floodpro.lines of the configured room
FloodSeconds == 20      \* floodpro.seconds of the configured room
BanMinutes == 1         \* floodpro.ban_time of the configured room
HistorySize == 2        \* chat_history of the configured room
FloodHistorySize == 1   \* chat_history of the room of the flood specification
MaxBurst == 2           \* inbound lines between two observations of the clock
MaxNickAttempts == 2   \* 433 replies offered on the alternate nick
CommandTime == 40       \* seconds modelled by the command specification
RosterTime == 20        \* seconds modelled by the roster specification
LogTime == 20           \* seconds modelled by the chat-log specification
LogSize == 3            \* chat_history before the reload
LoweredSize == 1        \* chat_history in the file that is reloaded
ContinueTime == 80      \* seconds modelled by the continuation specification
ContinueMins == 1       \* ai_continue_mins of the continuation specification
WindowTime == 60        \* seconds modelled by the sliding-window specification
ConnectTime == 40       \* seconds modelled by the connection specification
MaxCalls == 6           \* calls of get_token that found a token, over both threads
AdminTime == 60         \* seconds modelled by the admin-cache specification
ServersTime == 40       \* seconds modelled by the server-rotation specification
DieTime == 40           \* seconds modelled by the shutdown specification
WatchTime == 80         \* seconds modelled by the watchdog specification
ReloadFailTime == 40    \* seconds modelled by the failing-reload specification
RehashTime == 60        \* seconds modelled by the rehash specification
SleepTime == 40         \* seconds modelled by the sleep specification
LineLimit == 18         \* the bytes a line may have, 512 in the protocol
MaxText == 6            \* characters of the texts that are split
IdleInterval == 20      \* idle_chat_interval of the room of the shutdown and sleep specifications
MaxDrops == 1           \* connections the server closes in the reader specification
MaxCloses == 2          \* connections the server closes in the listener specification
RenameTime == 60        \* seconds modelled by the rename specification
KickTime == 60          \* seconds modelled by the random-action specification
IdleTime == 80          \* seconds modelled by the idle-chat specification
ChatInterval == 40      \* idle_chat_interval of the room of the idle-chat specification
ShortIdle == 20         \* an idle_chat_time below the interval
LongIdle == 60          \* an idle_chat_time above the interval
ActionInterval == 20    \* random_action_interval of the room of the random-action specification

(***************************************************************************)
(* Program constants.                                                      *)
(***************************************************************************)
BurstSize == 4          \* irc_burst_size default
FillRate == 1           \* irc_fill_rate default, tokens per second
SecondsPerMinute == 60  \* ban_time and ai_continue_mins are minutes
DefaultHistory == 20    \* chat_history default
DefaultContinueFreq == 30   \* ai_continue_freq default
DefaultContinueMins == 5    \* ai_continue_mins default
CacheTtl == 60          \* PermissionManager.cache_ttl
DefaultSleepMax == 60   \* sleep_max default
TrimHistory == 50       \* chat_history default of AIClient.update_config
ThreadTimeout == 5      \* ModuleReloader.thread_timeout

None == "None"

(***************************************************************************)
(* Names.  Lower models str.lower() on the names that occur.               *)
(***************************************************************************)
BotNick == "Q"                      \* config['nick']
\* A configuration of the model lists the keys its specification reads; the
\* required keys it leaves out have these values.
DefaultIdentity == "quip"
AllNicks == {"x", "y"} \cup {BotNick}
Room == "#r"
OtherRoom == "#s"
Lower(n) ==
    CASE n = "Q" -> "q" [] n = "X" -> "x" [] n = "Y" -> "y" [] n = "#R" -> "#r"
      [] OTHER -> n

VARIABLES
    now,            \* time.time()
    tokens,         \* TokenBucket.tokens
    last_update,    \* TokenBucket.last_update
    config,         \* IRCBot.config, the global tree without 'channels'
    channels,       \* IRCBot.channels, the per-room override trees
    fp_channels,    \* FloodProtection.config['channels']
    fp_config,      \* FloodProtection.config, the global tree
    channel_history,    \* FloodProtection.channel_history
    privmsg_history,    \* FloodProtection.privmsg_history
    ignored_users,      \* FloodProtection.ignored_users
    banned_users,       \* FloodProtection.banned_users
    current_nick,   \* IRCBot.current_nick
    users,          \* IRCBot.users
    channel_users,  \* IRCBot.channel_users
    chat_history,   \* AIClient.chat_history
    last_chat_times,    \* IRCBot.last_chat_times
    last_bot_times,     \* IRCBot.last_bot_times
    last_action_times,  \* IRCBot.last_action_times
    sleep_until,        \* IRCBot.sleep_until
    last_trigger_times, \* IRCBot.last_trigger_times
    conversation_timers,    \* IRCBot.conversation_timers
    commands,       \* MessageHandler.commands, the names of the loaded commands
    perm_config,    \* PermissionManager.config, the global tree
    admin_cache,    \* PermissionManager.admin_cache
    registration_complete,  \* IRCBot.registration_complete
    nick_attempt,   \* IRCBot.nick_attempt
    connected,      \* IRCBot.connected
    current_server_index,   \* IRCBot.current_server_index
    running,        \* IRCBot.running
    self_nick,      \* IRCBot.nick
    realname,       \* IRCBot.realname
    ident,          \* IRCBot.ident
    servers,        \* IRCBot.servers, the host names
    sock,           \* IRCBot.sock: "none", "open" or "closed"
    channel_check_thread,   \* MessageHandler.channel_check_thread is alive
    delayed_exit,   \* when DieCommand's exit thread ends the process, 0 if not started
    out,            \* the lines written to the socket by the latest step
    ev,             \* the latest inbound event or timer step
    nsent,          \* lines written to the socket by the writer specification
    waited,         \* total of the waits slept in send_raw
    idled,          \* time that passed between sends outside send_raw
    lastwait,       \* the wait returned by the latest get_token
    arrivals,       \* per nick, the times of its latest channel messages
    ban_hosts,      \* per host, the expiry of the latest ban recorded for it
    burst,          \* inbound lines since the clock was last observed
    presence,       \* per room, the server's view of the bot: "out", "pending" or "in"
    inbox,          \* the connection's inbound stream: lines sent, lines read, lines handled
    reload_paused,  \* IRCBot.reload_paused
    instances,      \* which permissions, handler, ai_client and floodpro objects the bot holds
    disk,           \* the configuration file: the global tree and the room trees
    threads,        \* the reader and scheduler threads: position, is_processing, is_alive, buffer;
                    \* the threads inside connect(), and the number of listen threads started
    ctl,            \* the reload in progress: position, entry point, deadline, result
    pre             \* what was in effect when the reload in progress was requested

botVars == <<now, tokens, last_update, config, channels, fp_channels, fp_config,
             channel_history, privmsg_history, ignored_users, banned_users,
             current_nick, users, channel_users, chat_history, last_chat_times,
             last_bot_times, last_action_times, sleep_until, last_trigger_times,
             conversation_timers, commands, perm_config, admin_cache,
             registration_complete, nick_attempt, connected, current_server_index,
             running, self_nick, realname, ident, servers, sock, channel_check_thread,
             delayed_exit, out>>
ghostVars == <<nsent, waited, idled, lastwait, arrivals, ban_hosts, burst, presence, inbox>>
reloadVars == <<reload_paused, instances, disk, threads, ctl, pre>>
vars == <<botVars, ev, ghostVars, reloadVars>>

\* The bot's fields as one record, so that a handler is a function of it.
St ==
    [now |-> now, tokens |-> tokens, last_update |-> last_update,
     config |-> config, channels |-> channels,
     fp_channels |-> fp_channels, fp_config |-> fp_config,
     channel_history |-> channel_history, privmsg_history |-> privmsg_history,
     ignored_users |-> ignored_users, banned_users |-> banned_users,
     current_nick |-> current_nick, users |-> users, channel_users |-> channel_users,
     chat_history |-> chat_history, last_chat_times |-> last_chat_times,
     last_bot_times |-> last_bot_times, last_action_times |-> last_action_times,
     sleep_until |-> sleep_until, last_trigger_times |-> last_trigger_times,
     conversation_timers |-> conversation_timers, commands |-> commands,
     perm_config |-> perm_config, admin_cache |-> admin_cache,
     registration_complete |-> registration_complete, nick_attempt |-> nick_attempt,
     connected |-> connected, current_server_index |-> current_server_index,
     running |-> running, nick |-> self_nick, realname |-> realname, ident |-> ident,
     servers |-> servers, sock |-> sock, delayed_exit |-> delayed_exit,
     channel_check_thread |-> channel_check_thread,
     out |-> out]

Commit(s) ==
    /\ now' = s.now /\ tokens' = s.tokens /\ last_update' = s.last_update
    /\ config' = s.config /\ channels' = s.channels
    /\ fp_channels' = s.fp_channels /\ fp_config' = s.fp_config
    /\ channel_history' = s.channel_history /\ privmsg_history' = s.privmsg_history
    /\ ignored_users' = s.ignored_users /\ banned_users' = s.banned_users
    /\ current_nick' = s.current_nick /\ users' = s.users
    /\ channel_users' = s.channel_users
    /\ chat_history' = s.chat_history /\ last_chat_times' = s.last_chat_times
    /\ last_bot_times' = s.last_bot_times /\ last_action_times' = s.last_action_times
    /\ sleep_until' = s.sleep_until /\ last_trigger_times' = s.last_trigger_times
    /\ conversation_timers' = s.conversation_timers /\ commands' = s.commands
    /\ perm_config' = s.perm_config /\ admin_cache' = s.admin_cache
    /\ registration_complete' = s.registration_complete
    /\ nick_attempt' = s.nick_attempt
    /\ connected' = s.connected /\ current_server_index' = s.current_server_index
    /\ running' = s.running
    /\ self_nick' = s.nick /\ realname' = s.realname /\ ident' = s.ident
    /\ servers' = s.servers
    /\ sock' = s.sock /\ delayed_exit' = s.delayed_exit
    /\ channel_check_thread' = s.channel_check_thread
    /\ out' = s.out

Max(a, b) == IF a >= b THEN a ELSE b

\* Python dict operations on a function with a finite domain.
Put(f, k, v) == [x \in (DOMAIN f) \cup {k} |-> IF x = k THEN v ELSE f[x]]
Del(f, k) == [x \in (DOMAIN f) \ {k} |-> f[x]]
Get(f, k, d) == IF k \in DOMAIN f THEN f[k] ELSE d
EmptyDict == [x \in {} |-> None]

(***************************************************************************)
(* Configuration trees.  A value of a tree is a scalar V(x) or a nested    *)
(* dict D(f), f a function from key strings to values.                     *)
(***************************************************************************)
V(x) == [dict |-> FALSE, v |-> x]
D(f) == [dict |-> TRUE, d |-> f]

\* key.split('.') on the dotted keys that occur.
DottedKeys ==
    ("floodpro.lines" :> <<"floodpro", "lines">>) @@
    ("floodpro.seconds" :> <<"floodpro", "seconds">>) @@
    ("a.b" :> <<"a", "b">>)
Split(key) == IF key \in DOMAIN DottedKeys THEN DottedKeys[key] ELSE <<key>>

\* next(c for c in channels if c['name'].lower() == channel.lower()): the
\* index of the first match, 0 for None.
\* The least index of a set of indices, 0 if it is empty.
FirstIndex(hits) ==
    IF hits = {} THEN 0 ELSE CHOOSE i \in hits : \A j \in hits : i <= j

FindChannel(chs, channel) ==
    FirstIndex({i \in 1..Len(chs) : Lower(chs[i]["name"].v) = Lower(channel)})

\* The loop over the parts of a dotted key in get_channel_config: the value
\* reached, or not found (Python's value = None).
RECURSIVE Walk(_, _)
Walk(value, parts) ==
    IF parts = <<>> THEN [found |-> TRUE, val |-> value]
    ELSE IF value.dict /\ Head(parts) \in DOMAIN value.d
         THEN Walk(value.d[Head(parts)], Tail(parts))
         ELSE [found |-> FALSE, val |-> value]

\* IRCBot.get_channel_config(channel, key, default)
ConfigAt(cfg, chs, i, parts, key, default) ==
    IF i # 0 /\ Len(parts) > 1 /\ Walk(D(chs[i]), parts).found
    THEN Walk(D(chs[i]), parts).val
    ELSE IF i # 0 /\ Len(parts) = 1 /\ key \in DOMAIN chs[i] THEN chs[i][key]
    ELSE IF key \in DOMAIN cfg THEN cfg[key]
    ELSE default

\* i is the index of the room's entry and parts the split key.
GetChannelConfig(cfg, chs, channel, key, default) ==
    ConfigAt(cfg, chs, FindChannel(chs, channel), Split(key), key, default)

\* get_channel_config on the bot's current configuration.
Cfg(s, channel, key, default) ==
    GetChannelConfig(s.config, s.channels, channel, key, V(default)).v

(***************************************************************************)
(* utils/tokenbucket.py                                                    *)
(***************************************************************************)
\* TokenBucket._add_tokens: lazy accrual, capped at capacity.
AddTokens(tok, last, t) ==
    [tokens |-> IF BurstSize <= tok + (t - last) * FillRate
                THEN BurstSize ELSE tok + (t - last) * FillRate, last_update |-> t]

\* TokenBucket.get_token(block=True): the new bucket state and the wait.
\* A caller that finds a token consumes it; a caller that finds none is told
\* how long to wait and the bucket is left as refilled.
TakeToken(b) ==
    IF b.tokens >= 1
    THEN [tokens |-> b.tokens - 1, last_update |-> b.last_update, wait |-> 0]
    ELSE [tokens |-> b.tokens, last_update |-> b.last_update,
          wait |-> ((1 - b.tokens) + FillRate - 1) \div FillRate]

\* b is the bucket after _add_tokens.
GetToken(tok, last, t) == TakeToken(AddTokens(tok, last, t))

\* IRCBot.send_raw on a healthy socket: take a token, sleep for the returned
\* wait (the clock advances), write the line.
SleepAndWrite(s, g, line) ==
    [s EXCEPT !.tokens = g.tokens, !.last_update = g.last_update,
              !.now = s.now + g.wait, !.out = Append(s.out, line)]

\* g is what get_token returned.
SendRaw(s, line) == SleepAndWrite(s, GetToken(s.tokens, s.last_update, s.now), line)

(***************************************************************************)
(* utils/floodpro.py                                                       *)
(***************************************************************************)
\* next(c for c in config['channels'] if c['name'] == channel): exact match.
FindChannelExact(chs, channel) ==
    FirstIndex({i \in 1..Len(chs) : chs[i]["name"].v = channel})

\* FloodProtection._is_banned: an expired entry is deleted on read.
IsBanned(s, channel, nick) ==
    IF nick \in DOMAIN s.banned_users[channel]
    THEN IF s.now < s.banned_users[channel][nick]
         THEN [banned |-> TRUE, s |-> s]
         ELSE [banned |-> FALSE,
               s |-> [s EXCEPT !.banned_users[channel] = Del(@, nick)]]
    ELSE [banned |-> FALSE, s |-> s]

\* FloodProtection._is_ignored
IsIgnored(s, nick) ==
    IF nick \in DOMAIN s.ignored_users
    THEN IF s.now < s.ignored_users[nick]
         THEN [ignored |-> TRUE, s |-> s]
         ELSE [ignored |-> FALSE, s |-> [s EXCEPT !.ignored_users = Del(@, nick)]]
    ELSE [ignored |-> FALSE, s |-> s]

\* The window with the comparison made strict: a timestamp exactly `seconds`
\* old is dropped.
PruneStrict(ts, t, seconds) == SelectSeq(ts, LAMBDA x : t - x < seconds)

\* The window left as it is: no timestamp is dropped.
KeepAll(ts, t, seconds) == ts

\* The timestamps t of a window with current_time - t <= seconds.
Prune(ts, t, seconds) == SelectSeq(ts, LAMBDA x : t - x <= seconds)

\* FloodProtection.check_channel_flood: ok is the returned bool.
ScoreChannelMessage(s, channel, nick, fc, ts, t) ==
    IF Len(ts) >= fc["lines"].v
    THEN [ok |-> FALSE,
          s |-> [s EXCEPT
                   !.banned_users[channel] =
                       Put(@, nick, t + fc["ban_time"].v * SecondsPerMinute),
                   !.channel_history[channel][nick] = <<>>]]
    ELSE [ok |-> TRUE, s |-> [s EXCEPT !.channel_history[channel][nick] = ts]]

\* check_channel_flood from the ban check on: b is what _is_banned returned,
\* fc the room's floodpro block, t the current time.
CheckChannelWindow(b, channel, nick, fc, t) ==
    IF b.banned THEN [ok |-> FALSE, s |-> b.s]
    ELSE ScoreChannelMessage(b.s, channel, nick, fc,
            Append(Prune(b.s.channel_history[channel][nick], t, fc["seconds"].v), t), t)

\* check_channel_flood from the lookup of the room's entry on: i is its index.
CheckChannelConfigured(s, i, channel, nick) ==
    IF i = 0 \/ "floodpro" \notin DOMAIN s.fp_channels[i] THEN [ok |-> TRUE, s |-> s]
    ELSE CheckChannelWindow(IsBanned(s, channel, nick), channel, nick,
                            s.fp_channels[i]["floodpro"].d, s.now)

\* ts is the pruned window with the new timestamp appended.
CheckChannelFlood(s, channel, nick, userhost, is_op, is_admin) ==
    IF is_op \/ is_admin THEN [ok |-> TRUE, s |-> s]
    ELSE CheckChannelConfigured(s, FindChannelExact(s.fp_channels, channel), channel, nick)

\* FloodProtection.check_privmsg_flood
ScorePrivmsg(s, nick, fc, ts, t) ==
    IF Len(ts) >= fc["lines"].v
    THEN [ok |-> FALSE,
          s |-> [s EXCEPT
                   !.ignored_users =
                       Put(@, nick, t + fc["ignore_time"].v * SecondsPerMinute),
                   !.privmsg_history[nick] = <<>>]]
    ELSE [ok |-> TRUE, s |-> [s EXCEPT !.privmsg_history[nick] = ts]]

\* check_privmsg_flood from the ignore check on: g is what _is_ignored
\* returned, fc the privmsg_floodpro block, t the current time.
CheckPrivmsgWindow(g, nick, fc, t) ==
    IF g.ignored THEN [ok |-> FALSE, s |-> g.s]
    ELSE ScorePrivmsg(g.s, nick, fc,
            Append(Prune(g.s.privmsg_history[nick], t, fc["seconds"].v), t), t)

\* ts is the pruned window with the new timestamp appended.
CheckPrivmsgFlood(s, nick, userhost, is_admin) ==
    IF is_admin THEN [ok |-> TRUE, s |-> s]
    ELSE IF "privmsg_floodpro" \notin DOMAIN s.fp_config THEN [ok |-> TRUE, s |-> s]
    ELSE CheckPrivmsgWindow(IsIgnored(s, nick), nick, s.fp_config["privmsg_floodpro"].d, s.now)

\* userhost.split('@')[1]: the part between the first and the second '@'.
\* (A userhost without '@' raises IndexError; the prefixes modelled have one.)
AfterAt(userhost) ==
    LET k == CHOOSE j \in 1..Len(userhost) :
                 userhost[j] = "@" /\ \A m \in 1..(j - 1) : userhost[m] # "@"
    IN  userhost[k + 1]

\* FloodProtection.get_ban_command: the mask is *!*@ the part after '@'.
GetBanCommand(s, channel, nick, userhost) ==
    << [cmd |-> "MODE", channel |-> channel, mode |-> "+b", mask |-> <<"*", "!", "*", "@", AfterAt(userhost)>>],
       [cmd |-> "KICK", channel |-> channel, nick |-> nick,
        minutes |-> s.fp_channels[FindChannelExact(s.fp_channels, channel)]["floodpro"].d["ban_time"].v] >>

(***************************************************************************)
(* utils/ai_client.py: the chat log.  An entry "<nick>: <text>" is kept as *)
(* the pair [nick, text]; split(': ', 1)[0] gives back nick.               *)
(***************************************************************************)
\* AIClient._get_channel_history_size

\* AIClient.add_to_history: append, then drop the oldest entry if the log is
\* longer than the configured size.
TrimTo(h, size) == IF Len(h) > size THEN Tail(h) ELSE h

\* TrimTo(h, size): history.pop(0) if the log is longer than size.
AddToHistory(s, entry, channel) ==
    [s EXCEPT !.chat_history =
        Put(@, channel, TrimTo(Append(Get(s.chat_history, channel, <<>>), entry),
                               Cfg(s, channel, "chat_history", DefaultHistory)))]

(***************************************************************************)
(* core/irc.py: helpers of the router and the scheduler.                   *)
(***************************************************************************)
\* IRCBot.is_in_channel
IsInChannel(s, channel) ==
    \E ch \in DOMAIN s.channel_users :
        Lower(ch) = Lower(channel) /\ s.current_nick \in DOMAIN s.channel_users[ch]

\* IRCBot.was_last_speaker: the speaker of the last chat-log entry is the bot.

\* h is the room's chat log.
WasLastSpeaker(s, channel) ==
    \E h \in {Get(s.chat_history, Lower(channel), <<>>)} :
        h # <<>> /\ Lower(h[Len(h)].nick) = Lower(s.current_nick)

\* IRCBot.is_sleeping: an expired sleep entry is deleted on read.
SleepingAt(s, c) ==
    IF c \in DOMAIN s.sleep_until
    THEN IF s.now >= s.sleep_until[c]
         THEN [sleeping |-> FALSE, s |-> [s EXCEPT !.sleep_until = Del(@, c)]]
         ELSE [sleeping |-> TRUE, s |-> s]
    ELSE [sleeping |-> FALSE, s |-> s]

\* c is the lower-cased room name.
IsSleeping(s, channel) == SleepingAt(s, Lower(channel))

\* IRCBot._should_continue_conversation
WithinContinuation(s, channel, last_trigger) ==
    IF ~Cfg(s, channel, "ai_continue", FALSE) THEN FALSE
    ELSE IF last_trigger = 0 THEN FALSE
    ELSE s.now - last_trigger
            <= Cfg(s, channel, "ai_continue_mins", DefaultContinueMins) * SecondsPerMinute

\* last_trigger is the room's last trigger time, 0 if it has none.
ShouldContinueConversation(s, channel) ==
    WithinContinuation(s, channel, Get(s.last_trigger_times, Lower(channel), 0))

\* IRCBot._schedule_next_response
ScheduleNextResponse(s, channel) ==
    [s EXCEPT !.conversation_timers =
        Put(@, Lower(channel), s.now + Cfg(s, channel, "ai_continue_freq", DefaultContinueFreq))]

\* IRCBot._update_trigger_time
ScheduleIfContinuing(s, channel) ==
    IF ShouldContinueConversation(s, channel) THEN ScheduleNextResponse(s, channel) ELSE s

\* The trigger time is set, then the continuation is scheduled if enabled.
UpdateTriggerTime(s, channel) ==
    ScheduleIfContinuing([s EXCEPT !.last_trigger_times = Put(@, Lower(channel), s.now)], channel)

\* IRCBot.send_channel_message for a text that fits one PRIVMSG line; an
\* empty text sends nothing.
\* send_channel_message after the line was written and logged: the bot's
\* last-message time is set and the continuation is scheduled if enabled.
AfterLogged(s, channel) ==
    ScheduleIfContinuing([s EXCEPT !.last_bot_times = Put(@, Lower(channel), s.now)], channel)

\* send_channel_message after the line was written.
AfterWritten(s, channel, message, add_to_history) ==
    AfterLogged(IF add_to_history
                THEN AddToHistory(s, [nick |-> s.current_nick, text |-> message], Lower(channel))
                ELSE s,
                channel)

SendChannelMessage(s, channel, message, add_to_history) ==
    IF message = <<>> THEN s
    ELSE AfterWritten(SendRaw(s, [cmd |-> "PRIVMSG", channel |-> channel, text |-> message]),
                      channel, message, add_to_history)

(***************************************************************************)
(* core/permissions.py                                                     *)
(***************************************************************************)
HasTok(str, t) == \E i \in 1..Len(str) : str[i] = t

\* The index of the first '@' of a string, 0 if it has none.
FirstAt(str) ==
    IF HasTok(str, "@")
    THEN CHOOSE j \in 1..Len(str) : str[j] = "@" /\ \A m \in 1..(j - 1) : str[m] # "@"
    ELSE 0

\* PermissionManager._match_mask: the pattern becomes an anchored,
\* case-insensitive regex in which '*' matches any run of text.
RECURSIVE MatchMask(_, _)
MatchMask(mask, pattern) ==
    IF pattern = <<>> THEN mask = <<>>
    ELSE IF Head(pattern) = "*"
         THEN MatchMask(mask, Tail(pattern))
              \/ (mask # <<>> /\ MatchMask(Tail(mask), pattern))
         ELSE /\ mask # <<>>
              /\ Lower(Head(mask)) = Lower(Head(pattern))
              /\ MatchMask(Tail(mask), Tail(pattern))

\* The pattern as is_admin completes it before matching the full mask.
FullPattern(pattern) ==
    IF ~HasTok(pattern, "!") /\ HasTok(pattern, "@") THEN <<"*", "!">> \o pattern
    ELSE IF HasTok(pattern, "!") /\ ~HasTok(pattern, "@") THEN pattern \o <<"@", "*">>
    ELSE pattern

\* The loop over the admin patterns in is_admin.
\* The admin patterns tried against the full mask nick!ident@host.
MatchAdmins(s, nick, known, full_mask, admins) ==
    \E i \in 1..Len(admins) :
        IF HasTok(admins[i], "!") \/ HasTok(admins[i], "@")
        THEN MatchMask(full_mask, FullPattern(admins[i]))
        ELSE \/ /\ known
                /\ s.users[nick].account # None
                /\ Lower(s.users[nick].account) = Lower(admins[i][1])
             \/ Lower(nick) = Lower(admins[i][1])

\* ident and host come from the users table if the nick is known, else from
\* the userhost split at its first '@' (k).
MaskOf(s, nick, userhost, known, k) ==
    <<nick, "!">>
    \o (IF known THEN s.users[nick].ident
        ELSE IF k # 0 THEN SubSeq(userhost, 1, k - 1) ELSE <<>>)
    \o <<"@">>
    \o (IF known THEN s.users[nick].host
        ELSE IF k # 0 THEN SubSeq(userhost, k + 1, Len(userhost)) ELSE userhost)

AdminMatch(s, nick, userhost) ==
    MatchAdmins(s, nick, nick \in DOMAIN s.users,
                MaskOf(s, nick, userhost, nick \in DOMAIN s.users, FirstAt(userhost)),
                Get(s.perm_config, "admins", V(<<>>)).v)

\* PermissionManager.is_admin: res is the returned bool; the result is served
\* from the cache while it is younger than cache_ttl, and cached otherwise.
CachedAdmin(s, key, res) ==
    [res |-> res,
     s |-> [s EXCEPT !.admin_cache = Put(@, key, [result |-> res, ts |-> s.now])]]

\* is_admin with the cache never read: every call is computed.
AdminComputed(s, nick, userhost, key) ==
    IF userhost = <<>> THEN [res |-> FALSE, s |-> s]
    ELSE CachedAdmin(s, key, AdminMatch(s, nick, userhost))

\* key is the cache key (nick.lower(), userhost).
AdminLookup(s, nick, userhost, key) ==
    IF userhost = <<>> THEN [res |-> FALSE, s |-> s]
    ELSE IF key \in DOMAIN s.admin_cache /\ s.now - s.admin_cache[key].ts < CacheTtl
    THEN [res |-> s.admin_cache[key].result, s |-> s]
    ELSE CachedAdmin(s, key, AdminMatch(s, nick, userhost))

IsAdmin(s, nick, userhost) == AdminLookup(s, nick, userhost, <<Lower(nick), userhost>>)

(***************************************************************************)
(* commands/: the handlers of the commands the router specifications use.  *)
(***************************************************************************)
AllCommands == {"boot", "config", "die", "help", "info", "jump", "kick", "rehash",
                "reload", "say", "sleep", "topic", "var", "wake"}

\* int() on the argument words that occur; any other word raises ValueError.
IntTable == ("0" :> 0) @@ ("1" :> 1) @@ ("90" :> 90)

ExitDelay == 2      \* seconds DieCommand's exit thread sleeps before os._exit

\* DieCommand.execute after the two flags are cleared: QUIT is written and
\* the socket closed if there is one, and the exit thread is started.
DieCleanup(s) ==
    IF s.sock = "open" THEN [SendRaw(s, [cmd |-> "QUIT"]) EXCEPT !.sock = "closed"]
    ELSE s
StartExit(s) == [s EXCEPT !.delayed_exit = s.now + ExitDelay]

\* SayCommand.execute, SleepCommand.execute, WakeCommand.execute,
\* DieCommand.execute: the state
\* afterwards and the returned reply, <<>> for none.
Execute(s, name, nick, channel, args) ==
    IF name = "say"
    THEN [s |-> s, response |-> IF args = <<>> THEN <<"Usage", "say">> ELSE args]
    ELSE IF name = "sleep"
    THEN IF args = <<>> THEN [s |-> s, response |-> <<"Usage", "sleep">>]
         ELSE IF args[1] \notin DOMAIN IntTable
         THEN [s |-> s, response |-> <<"Invalid", "sleep", "time">>]
         ELSE IF IntTable[args[1]] <= 0
         THEN [s |-> s, response |-> <<"Sleep", "time", "must", "be", "positive">>]
         ELSE IF IntTable[args[1]] > Cfg(s, channel, "sleep_max", DefaultSleepMax)
         THEN [s |-> s, response |-> <<"Sleep", "time", "too", "long">>]
         ELSE [s |-> [s EXCEPT !.sleep_until =
                        Put(@, Lower(channel), s.now + IntTable[args[1]] * SecondsPerMinute)],
               response |-> <<"Going", "to", "sleep">>]
    ELSE IF name = "wake"
    THEN IF Lower(channel) \in DOMAIN s.sleep_until
         THEN [s |-> [s EXCEPT !.sleep_until = Del(@, Lower(channel))],
               response |-> <<"Waking", "up">>]
         ELSE [s |-> s, response |-> <<"Not", "sleeping">>]
    ELSE IF name = "die"
    THEN [s |-> StartExit(DieCleanup([s EXCEPT !.running = FALSE, !.connected = FALSE])),
          response |-> <<>>]
    ELSE [s |-> s, response |-> <<>>]

(***************************************************************************)
(* core/handler.py: command dispatch.                                      *)
(***************************************************************************)
\* IRCBot.get_channel_command_config: the room's block for the command if the
\* room defines one, else the global block, else {}.
GlobalCommandConfig(s, command) ==
    IF "commands" \in DOMAIN s.config /\ command \in DOMAIN s.config["commands"].d
    THEN s.config["commands"].d[command].d ELSE EmptyDict

\* i is the index of the room's entry.
CommandConfigAt(s, i, command) ==
    IF i # 0 /\ "commands" \in DOMAIN s.channels[i]
           /\ command \in DOMAIN s.channels[i]["commands"].d
    THEN s.channels[i]["commands"].d[command].d
    ELSE GlobalCommandConfig(s, command)

GetChannelCommandConfig(s, channel, command) ==
    CommandConfigAt(s, FindChannel(s.channels, channel), command)

\* MessageHandler._check_command_permissions: ok is the returned bool.
\* The level check of _check_command_permissions for a user who is no admin.
LevelAllows(required, op, voice, enabled) ==
    IF required = "admin" THEN FALSE
    ELSE IF required = "op" /\ ~op THEN FALSE
    ELSE IF required = "voice" /\ ~(voice \/ op) THEN FALSE
    ELSE enabled

\* a is what is_admin returned, members the room's member table.
PermissionResult(a, nick, userhost, members, cmd_config) ==
    IF userhost # <<>> /\ a.res THEN [ok |-> TRUE, s |-> a.s]
    ELSE [ok |-> LevelAllows(Get(cmd_config, "requires", V("any")).v,
                             nick \in DOMAIN members /\ members[nick].op,
                             nick \in DOMAIN members /\ members[nick].voice,
                             Get(cmd_config, "enabled", V(TRUE)).v),
          s |-> a.s]

\* userhost is ident@host if the users table has both, else None.
PermissionsOf(s, nick, channel, cmd_config, userhost) ==
    PermissionResult(IsAdmin(s, nick, userhost), nick, userhost,
                     Get(s.channel_users, channel, EmptyDict), cmd_config)

CheckCommandPermissions(s, nick, channel, cmd_config) ==
    IF nick \notin DOMAIN s.users THEN [ok |-> FALSE, s |-> s]
    ELSE PermissionsOf(s, nick, channel, cmd_config,
            IF s.users[nick].ident # <<>> /\ s.users[nick].host # <<>>
            THEN s.users[nick].ident \o <<"@">> \o s.users[nick].host
            ELSE <<>>)

\* MessageHandler._handle_command
\* x is what the command's execute returned.
SendResult(x, channel) == SendChannelMessage(x.s, channel, x.response, FALSE)

\* _handle_command without the permission check.
RunUnchecked(p, command_name, nick, channel, args) ==
    SendResult(Execute(p.s, command_name, nick, channel, args), channel)

\* p is what _check_command_permissions returned.
RunIfPermitted(p, command_name, nick, channel, args) ==
    IF ~p.ok THEN p.s
    ELSE SendResult(Execute(p.s, command_name, nick, channel, args), channel)

\* cmd_config is the command's configuration for the room.
HandleConfigured(s, command_name, nick, channel, args, cmd_config) ==
    IF command_name \notin s.commands THEN s
    ELSE IF ~Get(cmd_config, "enabled", V(TRUE)).v THEN s
    ELSE RunIfPermitted(CheckCommandPermissions(s, nick, channel, cmd_config),
                        command_name, nick, channel, args)

HandleCommand(s, command_name, nick, channel, args) ==
    HandleConfigured(s, command_name, nick, channel, args,
                     GetChannelCommandConfig(s, channel, command_name))

(***************************************************************************)
(* core/irc.py: the channel-message router.  A message text is the tuple   *)
(* of its words; "Q: hi" is <<"Q", ":", "hi">> and "!say hi" is            *)
(* <<"!", "say", "hi">>.                                                   *)
(***************************************************************************)
\* re.search(pattern, message) for a pattern that is a literal word.

\* message.lower().startswith(current_nick.lower() + ":")
IsDirect(s, message) ==
    Len(message) >= 2 /\ Lower(message[1]) = Lower(s.current_nick) /\ message[2] = ":"

\* current_nick.lower() in message.lower()
Mentions(s, message) ==
    \E i \in 1..Len(message) : Lower(message[i]) = Lower(s.current_nick)

\* The delays random.uniform can return for the room's ai_delay range.
DelayRange(r) == IF r[1] > 0 \/ r[2] > 0 THEN r[1]..r[2] ELSE {0}

\* r is the room's ai_delay range.
AiDelays(s, channel) == DelayRange(Cfg(s, channel, "ai_delay", <<0, 0>>))

\* The reply branch shared by direct addresses and mentions: the trigger
\* clock is set, and a non-empty reply is sent after the delay.
SendReply(s, channel, response, ai_delay) ==
    IF response # <<>>
    THEN SendChannelMessage([s EXCEPT !.now = @ + ai_delay], channel, response, TRUE)
    ELSE s

Reply(s, channel, response, ai_delay) ==
    SendReply(UpdateTriggerTime(s, Lower(channel)), channel, response, ai_delay)

\* IRCBot.handle_channel_message.  response is what the language model
\* returns if it is asked, ai_delay the delay drawn for this message.
\* handle_channel_message for a message that is no command, after the
\* sleep check: the last-speaker check, then direct address or mention.
Respond(s, channel, message, response, ai_delay) ==
    IF ~IsDirect(s, message) /\ WasLastSpeaker(s, channel) THEN s
    ELSE IF IsDirect(s, message) THEN Reply(s, channel, response, ai_delay)
    ELSE IF Cfg(s, channel, "ai_mention", FALSE) /\ Mentions(s, message)
    THEN Reply(s, channel, response, ai_delay)
    ELSE s

\* sl is what is_sleeping returned.
RespondIfAwake(sl, channel, message, response, ai_delay) ==
    IF sl.sleeping THEN sl.s
    ELSE Respond(sl.s, channel, message, response, ai_delay)

\* The message is in the chat log: the room's last-chat time is set for a
\* message of anyone but the bot.
AfterChatLogged(s, nick, channel, message, response, ai_delay) ==
    RespondIfAwake(
        IsSleeping(IF Lower(nick) # Lower(s.current_nick)
                   THEN [s EXCEPT !.last_chat_times = Put(@, Lower(channel), s.now)]
                   ELSE s,
                   channel),
        channel, message, response, ai_delay)

\* handle_channel_message for a message that passed the flood check: a
\* command is dispatched, anything else is logged and routed.
Route(s, nick, channel, message, response, ai_delay) ==
    IF /\ message # <<>>
       /\ Head(message) = Cfg(s, channel, "cmd_prefix", "!")
       /\ Tail(message) # <<>>
    THEN HandleCommand(s, Lower(message[2]), nick, channel, Tail(Tail(message)))
    ELSE AfterChatLogged(AddToHistory(s, [nick |-> nick, text |-> message], Lower(channel)),
                         nick, channel, message, response, ai_delay)

\* The two lines of get_ban_command are written.
SendBan(s, ban) == SendRaw(SendRaw(s, ban[1]), ban[2])

\* f is what check_channel_flood returned.
AfterFloodCheck(f, nick, userhost, channel, message, response, ai_delay) ==
    IF ~f.ok THEN SendBan(f.s, GetBanCommand(f.s, channel, nick, userhost))
    ELSE Route(f.s, nick, channel, message, response, ai_delay)

\* The ignore lists: the room's ignore_nicks (or the global one), and the
\* ignore_nicks of the room's own entry (ci is its index).
Ignored(s, nick, channel, ci) ==
    \/ Lower(nick) \in {Lower(n) : n \in Cfg(s, channel, "ignore_nicks", {})}
    \/ /\ ci # 0
       /\ Lower(nick) \in {Lower(n) : n \in Get(s.channels[ci], "ignore_nicks", V({})).v}

HandleChannelMessage(s, nick, userhost, channel, message, response, ai_delay) ==
    IF Ignored(s, nick, channel, FindChannel(s.channels, channel)) THEN s
    ELSE IF \E p \in Cfg(s, channel, "ignore_regex", {}) : HasTok(message, p) THEN s
    ELSE AfterFloodCheck(CheckChannelFlood(s, channel, nick, userhost, FALSE, FALSE),
                         nick, userhost, channel, message, response, ai_delay)

\* IRCBot.handle_private_message: only the flood check has an effect.
HandlePrivateMessage(s, nick, userhost, message) ==
    CheckPrivmsgFlood(s, nick, userhost, FALSE).s

(***************************************************************************)
(* core/handler.py: the inbound events.                                    *)
(***************************************************************************)
\* The user tracking of MessageHandler.handle_line for a prefixed line.
TrackUser(s, nick, userhost) ==
    IF userhost # <<>> /\ nick # BotNick
    THEN IF nick \notin DOMAIN s.users
         THEN [s EXCEPT !.users = Put(@, nick, [ident |-> <<>>, host |-> userhost, account |-> None])]
         ELSE IF s.users[nick].host = <<>>
         THEN [s EXCEPT !.users[nick].host = userhost]
         ELSE s
    ELSE s

\* MessageHandler.handle_privmsg for a text that is not a CTCP request.
HandlePrivmsg(s, nick, userhost, target, message, response, ai_delay) ==
    IF target \in {Room}
    THEN IF ~IsInChannel(s, target) THEN s
         ELSE HandleChannelMessage(s, nick, userhost, target, message, response, ai_delay)
    ELSE HandlePrivateMessage(s, nick, userhost, message)

\* MessageHandler.handle_join.  entrance is the language model's entrance
\* line.  The prefix handed over is "user@host", so the branch that tracks
\* the user from a prefix holding '!' is never taken.
\* The bot's own JOIN after the room's tables were set up.
Entrance(s, channel, entrance) ==
    IF Cfg(s, channel, "ai_entrance", FALSE)
    THEN SendChannelMessage(s, channel, entrance, TRUE)
    ELSE s

HandleJoin(s, nick, userhost, channel, entrance) ==
    IF Lower(nick) = Lower(s.current_nick)
    THEN Entrance([s EXCEPT
                      !.channel_users = Put(@, channel,
                            (s.current_nick :> [op |-> FALSE, voice |-> FALSE])),
                      !.last_chat_times = Put(@, Lower(channel), s.now),
                      !.last_action_times = Put(@, Lower(channel), s.now)],
                  channel, entrance)
    ELSE IF channel \in DOMAIN s.channel_users
         THEN SendRaw([s EXCEPT !.channel_users[channel] =
                                    Put(@, nick, [op |-> FALSE, voice |-> FALSE])],
                      [cmd |-> "WHO", nick |-> nick])
         ELSE s

\* The loop of MessageHandler.handle_mode over the mode letters: only 'o'
\* and 'v' take a parameter.
\* One 'o' or 'v' letter applied to its target.
SetMode(members, mode, target, adding) ==
    IF target \in DOMAIN members
    THEN IF mode = "o"
         THEN [members EXCEPT ![target].op = adding]
         ELSE [members EXCEPT ![target].voice = adding]
    ELSE members

RECURSIVE ApplyModes(_, _, _, _, _)
ApplyModes(members, modes, mode_params, adding, param_index) ==
    IF modes = <<>> THEN members
    ELSE IF Head(modes) = "+" THEN ApplyModes(members, Tail(modes), mode_params, TRUE, param_index)
    ELSE IF Head(modes) = "-" THEN ApplyModes(members, Tail(modes), mode_params, FALSE, param_index)
    ELSE IF Head(modes) \in {"o", "v"} /\ param_index < Len(mode_params)
    THEN ApplyModes(SetMode(members, Head(modes), mode_params[param_index + 1], adding),
                    Tail(modes), mode_params, adding, param_index + 1)
    ELSE ApplyModes(members, Tail(modes), mode_params, adding, param_index)

\* MessageHandler.handle_mode
HandleMode(s, channel, modes, mode_params) ==
    IF channel \notin DOMAIN s.channel_users THEN s
    ELSE [s EXCEPT !.channel_users[channel] = ApplyModes(@, modes, mode_params, TRUE, 0)]

(***************************************************************************)
(* core/handler.py: the roster.  An inbound line is the record of its      *)
(* prefix, its command and its parameters; the parameters are the tuple of *)
(* their words, with ":" a token of its own where a word begins with it.   *)
(***************************************************************************)
\* The characters of the mode strings, NAMES entries and WHO flags that
\* occur; a word of one character is that character.
Chars(w) ==
    CASE w = "+o" -> <<"+", "o">> [] w = "-o" -> <<"-", "o">>
      [] w = "+v" -> <<"+", "v">> [] w = "+bo" -> <<"+", "b", "o">>
      [] w = "+kv" -> <<"+", "k", "v">> [] w = "+ov" -> <<"+", "o", "v">>
      [] w = "@x" -> <<"@", "x">> [] w = "+y" -> <<"+", "y">>
      [] w = "H@" -> <<"H", "@">> [] w = "H+" -> <<"H", "+">>
      [] w = "H*" -> <<"H", "*">>
      [] OTHER -> <<w>>

\* params.split(): the words; a ":" is part of the word that follows it.
Words(params) == SelectSeq(params, LAMBDA w : w # ":")

\* params.lstrip(':')
RECURSIVE LStrip(_)
LStrip(params) ==
    IF params # <<>> /\ Head(params) = ":" THEN LStrip(Tail(params)) ELSE params

\* MessageHandler.handle_part
HandlePart(s, nick, channel) ==
    IF Lower(nick) = Lower(s.current_nick)
    THEN IF channel \in DOMAIN s.channel_users
         THEN [s EXCEPT !.channel_users = Del(@, channel)]
         ELSE s
    ELSE IF channel \in DOMAIN s.channel_users /\ nick \in DOMAIN s.channel_users[channel]
         THEN [s EXCEPT !.channel_users[channel] = Del(@, nick)]
         ELSE s

\* MessageHandler.handle_quit
HandleQuit(s, nick) ==
    [s EXCEPT !.channel_users = [c \in DOMAIN @ |-> Del(@[c], nick)],
              !.users = Del(@, nick)]

\* users[new_nick] = users.pop(nick) on a dict that holds nick.
Rename(f, nick, new_nick) == Put(Del(f, nick), new_nick, f[nick])

\* MessageHandler.handle_nick, the handler bound to NICK: the member tables
\* and the users table are re-keyed; current_nick is not touched.
HandleNick(s, nick, new_nick) ==
    [s EXCEPT !.channel_users =
                  [c \in DOMAIN @ |-> IF nick \in DOMAIN @[c]
                                      THEN Rename(@[c], nick, new_nick) ELSE @[c]],
              !.users = IF nick \in DOMAIN @ THEN Rename(@, nick, new_nick) ELSE @]

\* MessageHandler.handle_kick
HandleKick(s, parts) ==
    IF Len(parts) >= 2 /\ parts[1] \in DOMAIN s.channel_users
    THEN IF Lower(parts[2]) = Lower(s.current_nick)
         THEN [s EXCEPT !.channel_users = Del(@, parts[1])]
         ELSE [s EXCEPT !.channel_users[parts[1]] = Del(@, parts[2])]
    ELSE s

\* The index of the first ":" of the parameters that follows a word, 0 if
\* there is none: where params.split(" :", 1) splits.
ColonAt(params) ==
    FirstIndex({i \in 2..Len(params) : params[i] = ":"})

\* One entry of a NAMES listing: the status prefix is stripped, the entry is
\* keyed by what is left (the nicks that occur have one character).
AddName(members, c) ==
    IF c[Len(c)] \in {"@", "+", "%", "~", "&", "!"} THEN members
    ELSE Put(members, c[Len(c)],
             [op |-> \E i \in 1..(Len(c) - 1) : c[i] = "@",
              voice |-> \E i \in 1..(Len(c) - 1) : c[i] = "+"])

\* The loop of handle_353 over the listed entries.
RECURSIVE AddNames(_, _)
AddNames(members, nicks) ==
    IF nicks = <<>> THEN members
    ELSE AddNames(AddName(members, Chars(Head(nicks))), Tail(nicks))

\* MessageHandler.handle_353: the room is the last word before " :", the
\* entries are the words after it (k is where the parameters split).
Handle353(s, params, k) ==
    IF k = 0 THEN s
    ELSE [s EXCEPT !.channel_users =
            Put(@, params[k - 1],
                AddNames(Get(@, params[k - 1], EmptyDict),
                         Words(SubSeq(params, k + 1, Len(params)))))]

\* MessageHandler.handle_366: the end of NAMES asks for the room's WHOX.
Handle366(s, parts) ==
    IF Len(parts) >= 2 THEN SendRaw(s, [cmd |-> "WHO", channel |-> parts[2]]) ELSE s

\* The users entry after users[nick].update(fields), or the new entry.
Updated(table, nick, uident, host) ==
    IF nick \in DOMAIN table
    THEN [table EXCEPT ![nick].ident = uident, ![nick].host = host]
    ELSE Put(table, nick, [ident |-> uident, host |-> host, account |-> None])

\* MessageHandler.handle_352: <channel> <user> <host> <server> <nick>
\* <status> :<hopcount> <realname>.
Handle352(s, parts) ==
    IF Len(parts) >= 8 /\ parts[1] \in DOMAIN s.channel_users
    THEN [s EXCEPT !.channel_users[parts[1]] =
                       Put(@, parts[5], [op |-> HasTok(Chars(parts[6]), "@"),
                                         voice |-> HasTok(Chars(parts[6]), "+")]),
                   !.users = Updated(@, parts[5], <<parts[2]>>, <<parts[3]>>)]
    ELSE s

\* MessageHandler.handle_354: the fields are read by position, the nick from
\* parts[5], the ident from parts[2], the host from parts[4] and the account
\* from parts[7] (counted from 0); the flags are applied in every room that
\* lists the nick, and '*' counts as op.
Handle354(s, parts) ==
    IF Len(parts) >= 8
    THEN [s EXCEPT
            !.users = Put(@, parts[6],
                          [ident |-> <<parts[3]>>, host |-> <<parts[5]>>,
                           account |-> IF parts[8] = "0" THEN None ELSE parts[8]]),
            !.channel_users =
                [c \in DOMAIN @ |->
                    IF parts[6] \in DOMAIN @[c]
                    THEN [@[c] EXCEPT ![parts[6]] =
                            [op |-> HasTok(Chars(parts[7]), "@") \/ HasTok(Chars(parts[7]), "*"),
                             voice |-> HasTok(Chars(parts[7]), "+")]]
                    ELSE @[c]]]
    ELSE s

(***************************************************************************)
(* core/irc.py: registration and capability negotiation.  A line written   *)
(* to the socket is a record of its command and its arguments.             *)
(***************************************************************************)
\* The alternate nick with no suffix, whatever the count.
PlainAltNick(s, k) == Get(s.config, "altnick", V("Q_")).v

\* The nick the bot tries after its k-th 433 on the alternate nick.
AltNick(s, k) ==
    CASE k = 0 -> Get(s.config, "altnick", V("Q_")).v
      [] k = 1 -> "Q_1"
      [] k = 2 -> "Q_2"
      [] k = 3 -> "Q_3"
      [] OTHER -> "Q_4"

\* The command as configured, $nick left in place.
KeepNick(cmd, nick) == cmd

\* cmd.replace('$nick', current_nick) on a command kept as its words.
ReplaceNick(cmd, nick) == [i \in 1..Len(cmd) |-> IF cmd[i] = "$nick" THEN nick ELSE cmd[i]]

\* The loop of handle_numeric over post_connect_commands: each command is
\* written and a second is slept.
RECURSIVE PostConnect(_, _)
PostConnect(s, cmds) ==
    IF cmds = <<>> THEN s
    ELSE PostConnect([SendRaw(s, [cmd |-> "RAW", text |-> ReplaceNick(Head(cmds), s.current_nick)])
                          EXCEPT !.now = @ + 1],
                     Tail(cmds))

\* IRCBot.join_channels: one JOIN with the room's key for every configured
\* room (the half-second pause after each is below the clock's resolution).
RECURSIVE JoinChannels(_, _)
JoinChannels(s, i) ==
    IF i > Len(s.channels) THEN s
    ELSE JoinChannels(SendRaw(s, [cmd |-> "JOIN", channel |-> s.channels[i]["name"].v,
                                   key |-> Get(s.channels[i], "key", V(<<>>)).v]),
                      i + 1)

\* IRCBot._sasl_plain_auth: the payload is base64 of \0username\0password.
SaslPlainAuth(s, sasl) ==
    IF ~Get(sasl, "enabled", V(FALSE)).v \/ Get(sasl, "password", V(<<>>)).v = <<>> THEN s
    ELSE SendRaw(SendRaw(SendRaw(s, [cmd |-> "CAP", text |-> <<"REQ", ":", "sasl">>]),
                         [cmd |-> "AUTHENTICATE", text |-> <<"PLAIN">>]),
                 [cmd |-> "AUTHENTICATE",
                  base64 |-> <<"\\0", Get(sasl, "username", V(BotNick)).v,
                               "\\0", Get(sasl, "password", V(<<>>)).v>>])

\* IRCBot.handle_cap: the subcommand is the first word of the parameters.
HandleCap(s, params) ==
    IF Len(Words(params)) < 2 THEN s
    ELSE IF Words(params)[1] = "LS"
    THEN IF \E i \in 1..Len(params) : Lower(params[i]) = "sasl"
         THEN SaslPlainAuth(s, Get(s.config, "sasl", D(EmptyDict)).d)
         ELSE SendRaw(s, [cmd |-> "CAP", text |-> <<"END">>])
    ELSE IF Words(params)[1] = "NAK" THEN SendRaw(s, [cmd |-> "CAP", text |-> <<"END">>])
    ELSE s

\* IRCBot.handle_numeric
HandleNumeric(s, numeric) ==
    IF numeric = "433"
    THEN IF s.registration_complete THEN s
         ELSE IF s.current_nick = BotNick
         THEN SendRaw([s EXCEPT !.current_nick = AltNick(s, 0)],
                      [cmd |-> "NICK", nick |-> AltNick(s, 0)])
         ELSE SendRaw([s EXCEPT !.nick_attempt = @ + 1,
                                !.current_nick = AltNick(s, s.nick_attempt + 1)],
                      [cmd |-> "NICK", nick |-> AltNick(s, s.nick_attempt + 1)])
    ELSE IF numeric \in {"903", "904", "905", "906", "907"}
    THEN SendRaw(s, [cmd |-> "CAP", text |-> <<"END">>])
    ELSE IF numeric = "001"
    THEN IF s.registration_complete THEN s
         ELSE IF Get(s.config, "usermode", V(<<>>)).v # <<>>
         THEN SendRaw([s EXCEPT !.registration_complete = TRUE],
                      [cmd |-> "MODE", nick |-> s.current_nick,
                       mode |-> s.config["usermode"].v])
         ELSE [s EXCEPT !.registration_complete = TRUE]
    ELSE IF numeric \in {"376", "422"} /\ s.registration_complete
    THEN JoinChannels([PostConnect(s, Get(s.config, "post_connect_commands", V(<<>>)).v)
                           EXCEPT !.channel_check_thread = TRUE], 1)
    ELSE s

(***************************************************************************)
(* core/handler.py: handle_line.  A prefix is the tuple of its parts,      *)
(* <<nick, "!", user, "@", host>> for a user and <<server>> for a server.  *)
(***************************************************************************)
\* MessageHandler._parse_prefix
ParsePrefix(prefix) ==
    IF HasTok(prefix, "!") /\ HasTok(prefix, "@")
    THEN [nick |-> prefix[1], userhost |-> SubSeq(prefix, 3, Len(prefix))]
    ELSE [nick |-> prefix[1], userhost |-> <<>>]

\* The numeric branch of handle_line: the handler's own handle_<numeric> if
\* it has one, else IRCBot.handle_numeric.
DispatchNumeric(s, command, params) ==
    CASE command = "353" -> Handle353(s, params, ColonAt(params))
      [] command = "366" -> Handle366(s, Words(params))
      [] command = "352" -> Handle352(s, Words(params))
      [] command = "354" -> Handle354(s, Words(params))
      [] command = "315" -> s
      [] OTHER -> HandleNumeric(s, command)

\* The bound events of handle_line; params is what lstrip(':') left, inp
\* the language model's answers.
DispatchEvent(s, nick, userhost, command, params, inp) ==
    CASE command = "JOIN" -> HandleJoin(s, nick, userhost, LStrip(params)[1], inp.entrance)
      [] command = "PART" -> HandlePart(s, nick, Words(params)[1])
      [] command = "QUIT" -> HandleQuit(s, nick)
      [] command = "NICK" -> HandleNick(s, nick, LStrip(params)[1])
      [] command = "KICK" -> HandleKick(s, Words(params))
      [] command = "MODE" ->
            IF Len(Words(params)) < 2 THEN s
            ELSE HandleMode(s, Words(params)[1], Chars(Words(params)[2]),
                            SubSeq(Words(params), 3, Len(Words(params))))
      [] command = "PRIVMSG" ->
            IF ColonAt(params) = 0 THEN s
            ELSE HandlePrivmsg(s, nick, userhost, params[1],
                               SubSeq(params, ColonAt(params) + 1, Len(params)),
                               inp.response, inp.ai_delay)
      [] OTHER -> s

\* p is the parsed prefix.
HandleParsed(s, p, command, params, inp) ==
    IF command \in {"001", "315", "352", "353", "354", "366", "376", "422", "433",
                    "903", "904", "905", "906", "907"}
    THEN DispatchNumeric(s, command, params)
    ELSE IF command = "CAP" THEN HandleCap(s, params)
    ELSE IF command = "AUTHENTICATE"
    THEN IF params = <<"+">> THEN SaslPlainAuth(s, Get(s.config, "sasl", D(EmptyDict)).d) ELSE s
    ELSE DispatchEvent(s, p.nick, p.userhost, command, params, inp)

\* MessageHandler.handle_line for a line that begins with ':'.
HandleLine(s, line, inp) ==
    HandleParsed(TrackUser(s, ParsePrefix(line.prefix).nick, ParsePrefix(line.prefix).userhost),
                 ParsePrefix(line.prefix), line.command, LStrip(line.params), inp)

(***************************************************************************)
(* The state after construction, for a given configuration.                *)
(***************************************************************************)
\* IRCBot.__init__ and the constructors it calls: a full bucket, empty
\* flood tables, no membership, an empty chat log, every command loaded.
ConstructWith(cfg, chs, file) ==
    /\ now = StartTime
    /\ tokens = BurstSize /\ last_update = StartTime
    /\ config = cfg /\ channels = chs
    /\ fp_config = cfg /\ fp_channels = chs
    /\ channel_history = [c \in {Room} |-> [n \in AllNicks |-> <<>>]]
    /\ privmsg_history = [n \in AllNicks |-> <<>>]
    /\ ignored_users = EmptyDict
    /\ banned_users = [c \in {Room} |-> EmptyDict]
    /\ current_nick = BotNick
    /\ users = EmptyDict /\ channel_users = EmptyDict
    /\ chat_history = EmptyDict
    /\ last_chat_times = EmptyDict /\ last_bot_times = EmptyDict
    /\ last_action_times = EmptyDict /\ sleep_until = EmptyDict
    /\ last_trigger_times = EmptyDict /\ conversation_timers = EmptyDict
    /\ commands = AllCommands
    /\ perm_config = cfg /\ admin_cache = EmptyDict
    /\ registration_complete = FALSE /\ nick_attempt = 0
    /\ connected = FALSE /\ current_server_index = 0 /\ running = TRUE
    /\ self_nick = Get(cfg, "nick", V(BotNick)).v
    /\ realname = Get(cfg, "realname", V(DefaultIdentity)).v
    /\ ident = Get(cfg, "ident", V(DefaultIdentity)).v
    /\ servers = Get(cfg, "servers", V(<<"s1">>)).v
    /\ sock = "none" /\ delayed_exit = 0
    /\ channel_check_thread = FALSE
    /\ out = <<>>
    /\ ev = [type |-> "init"]
    /\ nsent = 0 /\ waited = 0 /\ idled = 0 /\ lastwait = 0
    /\ arrivals = [n \in AllNicks |-> <<>>]
    /\ ban_hosts = EmptyDict
    /\ burst = 0
    /\ presence = [r \in {Room, OtherRoom} |-> "out"]
    /\ inbox = [sent |-> <<>>, read |-> 0, handled |-> <<>>, closed |-> FALSE, drops |-> 0]
    /\ reload_paused = FALSE
    /\ instances = [permissions |-> 0, handler |-> 0, ai_client |-> 0, floodpro |-> 0]
    /\ disk = file
    /\ threads = [reader |-> [pc |-> "top", is_processing |-> FALSE, buffer |-> <<>>],
                  sched |-> [pc |-> "top", is_processing |-> FALSE, alive |-> TRUE],
                  connecting |-> {}, listeners |-> 0]
    /\ ctl = [pc |-> "idle", entry |-> "none", paused |-> FALSE, original_state |-> FALSE,
              deadline |-> 0, ok |-> TRUE, timeout |-> "none", failed |-> "none",
              requested |-> FALSE]
    /\ pre = [config |-> cfg, channels |-> chs, commands |-> AllCommands,
              instances |-> [permissions |-> 0, handler |-> 0, ai_client |-> 0, floodpro |-> 0],
              flood |-> [channel_history |-> [c \in {Room} |-> [n \in AllNicks |-> <<>>]],
                         privmsg_history |-> [n \in AllNicks |-> <<>>],
                         ignored_users |-> EmptyDict,
                         banned_users |-> [c \in {Room} |-> EmptyDict]]]

\* The state after construction when the configuration file is the
\* configuration the bot was started with.
Construct(cfg, chs) == ConstructWith(cfg, chs, [config |-> cfg, channels |-> chs])

(***************************************************************************)
(* The writer: back-to-back and spaced calls of send_raw.                  *)
(***************************************************************************)
\* One call of send_raw; the wait it sleeps is the advance of the clock.
Send ==
    /\ nsent < MaxSends
    /\ now < StartTime + MaxBucketTime
    /\ \E s \in {SendRaw([St EXCEPT !.out = <<>>], [cmd |-> "PING"])} :
        /\ Commit(s)
        /\ nsent' = nsent + 1
        /\ waited' = waited + (s.now - now)
        /\ lastwait' = s.now - now
    /\ ev' = [type |-> "send"]
    /\ UNCHANGED <<idled, arrivals, ban_hosts, burst, presence, inbox>>
    /\ UNCHANGED reloadVars

\* A second passes between two calls of send_raw.
Idle ==
    /\ now < StartTime + MaxBucketTime
    /\ Commit([St EXCEPT !.now = @ + 1, !.out = <<>>])
    /\ idled' = idled + 1
    /\ ev' = [type |-> "idle"]
    /\ UNCHANGED <<nsent, waited, lastwait, arrivals, ban_hosts, burst, presence, inbox>>
    /\ UNCHANGED reloadVars

SpecBucket == Construct(EmptyDict, <<>>) /\ [][Send \/ Idle]_vars

\* C1: for back-to-back sends from a full bucket the first `capacity` sends
\* wait zero and the total wait over N sends is at least (N - capacity)/rate;
\* no more than capacity + rate*T lines are written in an interval of length T.
C1_RateLimit ==
    /\ (nsent <= BurstSize => waited = 0)
    /\ (idled = 0 => waited * FillRate >= nsent - BurstSize)
    /\ nsent <= BurstSize + FillRate * (now - StartTime)

(***************************************************************************)
(* Inbound JOIN, MODE and PRIVMSG lines of one room, and the passing of    *)
(* time.                                                                   *)
(***************************************************************************)
UserHost(h) == <<"u", "@", h>>

\* The nick holds an unexpired ban in the room.
BannedNow(nick) ==
    nick \in DOMAIN banned_users[Room] /\ now < banned_users[Room][nick]

\* The nick holds op in the room, or matches an admin pattern.
Exempt(nick, userhost) ==
    \/ /\ Room \in DOMAIN channel_users
       /\ nick \in DOMAIN channel_users[Room]
       /\ channel_users[Room][nick].op
    \/ AdminMatch(TrackUser(St, nick, userhost), nick, userhost)

\* With this message the nick has sent FloodLines messages within
\* FloodSeconds seconds.
RecentEnough(a) ==
    /\ Len(a) >= FloodLines - 1
    /\ \A i \in (Len(a) - FloodLines + 2)..Len(a) : now - a[i] <= FloodSeconds

\* a is the nick's arrival history.

\* The latest FloodLines - 1 arrival times of the nick.
LastArrivals(a) ==
    IF Len(a) > FloodLines - 1 THEN SubSeq(a, Len(a) - FloodLines + 2, Len(a)) ELSE a

\* a is the nick's arrival history with the current time appended.

\* A line arrives: within the horizon, and at most MaxBurst lines between two
\* observations of the clock.
Inbound(horizon) ==
    /\ now <= StartTime + horizon
    /\ burst < MaxBurst
    /\ burst' = burst + 1

\* ":bot!user@host JOIN #r" echoed by the server.
BotJoinStep(horizon) ==
    /\ Inbound(horizon)
    /\ ~IsInChannel(St, Room)
    /\ Commit(HandleJoin([St EXCEPT !.out = <<>>], current_nick, UserHost("b"), Room, <<>>))
    /\ ev' = [type |-> "JOIN", nick |-> current_nick]
    /\ UNCHANGED <<nsent, waited, idled, lastwait, arrivals, ban_hosts, inbox>>
    /\ UNCHANGED reloadVars

\* The step when the server's view of the bot is not followed.
BotJoin(horizon) == BotJoinStep(horizon) /\ UNCHANGED presence

\* ":nick!user@host JOIN #r" of a user who is not a member.
UserJoin(horizon, nicks, hosts) ==
    /\ Inbound(horizon)
    /\ Room \in DOMAIN channel_users
    /\ \E n \in nicks, h \in hosts :
        /\ n \notin DOMAIN channel_users[Room]
        /\ Commit(HandleJoin(TrackUser([St EXCEPT !.out = <<>>], n, UserHost(h)),
                             n, UserHost(h), Room, <<>>))
        /\ ev' = [type |-> "JOIN", nick |-> n]
    /\ UNCHANGED <<nsent, waited, idled, lastwait, arrivals, ban_hosts, presence, inbox>>
    /\ UNCHANGED reloadVars

\* ":server MODE #r +o nick".
Mode(horizon, nicks) ==
    /\ Inbound(horizon)
    /\ \E n \in nicks, m \in {<<"+", "o">>} :
        /\ Commit(HandleMode([St EXCEPT !.out = <<>>], Room, m, <<n>>))
        /\ ev' = [type |-> "MODE", nick |-> n]
    /\ UNCHANGED <<nsent, waited, idled, lastwait, arrivals, ban_hosts, presence, inbox>>
    /\ UNCHANGED reloadVars

\* ":nick!user@host PRIVMSG #r :text".  The event keeps what was true when
\* the line arrived: whether the bot was in the room, whether the sender was
\* banned or exempt, whether this was its FloodLines-th message in the
\* window, whether the bot was the last speaker of the chat log.
\* The handler recorded a ban of the nick that it did not hold before.
NewBan(s1, n) ==
    /\ n \in DOMAIN s1.banned_users[Room]
    /\ n \in DOMAIN banned_users[Room] => s1.banned_users[Room][n] # banned_users[Room][n]

ChannelMessage(horizon, senders, messages, responses) ==
    /\ Inbound(horizon)
    /\ \E sender \in senders, m \in messages, r \in responses :
       \E d \in AiDelays(St, Room) :
       LET n == sender[1]
           h == sender[2]
       IN
       \E s1 \in {HandlePrivmsg(TrackUser([St EXCEPT !.out = <<>>], n, UserHost(h)),
                                n, UserHost(h), Room, m, r, d)} :
       \E scored \in {IsInChannel(St, Room) /\ ~BannedNow(n)} :
       \E lth \in {scored /\ RecentEnough(arrivals[n])} :
        /\ Commit(s1)
        /\ ev' = [type |-> "PRIVMSG", nick |-> n, userhost |-> UserHost(h),
                  target |-> Room, message |-> m,
                  joined |-> IsInChannel(St, Room),
                  banned |-> BannedNow(n),
                  covered |-> h \in DOMAIN ban_hosts /\ now < ban_hosts[h],
                  exempt |-> Exempt(n, UserHost(h)),
                  lth |-> lth,
                  was_last |-> WasLastSpeaker(St, Room)]
        /\ arrivals' = IF ~scored THEN arrivals
                       ELSE IF lth THEN [arrivals EXCEPT ![n] = <<>>]
                       ELSE [arrivals EXCEPT ![n] = LastArrivals(Append(arrivals[n], now))]
        /\ ban_hosts' = IF NewBan(s1, n) THEN Put(ban_hosts, h, s1.banned_users[Room][n])
                        ELSE ban_hosts
    /\ UNCHANGED <<nsent, waited, idled, lastwait, presence, inbox>>
    /\ UNCHANGED reloadVars

\* ClockStep seconds pass with no inbound line.
Tick(horizon) ==
    /\ now + ClockStep <= StartTime + horizon
    /\ Commit([St EXCEPT !.now = @ + ClockStep, !.out = <<>>])
    /\ ev' = [type |-> "tick"]
    /\ burst' = 0
    /\ UNCHANGED <<nsent, waited, idled, lastwait, arrivals, ban_hosts, presence, inbox>>
    /\ UNCHANGED reloadVars

\* A line of the given set arrives and handle_line runs on it.  A 433 is
\* offered while the nick counter is below its bound.
ReceiveStep(horizon, lines) ==
    /\ Inbound(horizon)
    /\ \E line \in lines :
        /\ line.command = "433" => nick_attempt < MaxNickAttempts
        /\ Commit(HandleLine([St EXCEPT !.out = <<>>], line,
                             [entrance |-> <<>>, response |-> <<>>, ai_delay |-> 0]))
        /\ ev' = [type |-> "line", line |-> line]
    /\ UNCHANGED <<nsent, waited, idled, lastwait, arrivals, ban_hosts, inbox>>
    /\ UNCHANGED reloadVars

\* The step when the server's view of the bot is not followed.
Receive(horizon, lines) == ReceiveStep(horizon, lines) /\ UNCHANGED presence

\* A line from the server, and a line from nick!u@host.
FromServer(command, params) == [prefix |-> <<"srv">>, command |-> command, params |-> params]
FromUser(nick, host, command, params) ==
    [prefix |-> <<nick, "!", "u", "@", host>>, command |-> command, params |-> params]

\* IRCBot.connect for a server without a password, once the socket is open:
\* the registration flag is reset and the opening lines are written.
ConnectTo(s, sasl) ==
    IF Get(sasl, "enabled", V(FALSE)).v
    THEN SendRaw(SendRaw(SendRaw([s EXCEPT !.registration_complete = FALSE],
                                 [cmd |-> "CAP", text |-> <<"LS", "302">>]),
                         [cmd |-> "NICK", nick |-> s.current_nick]),
                 [cmd |-> "USER"])
    ELSE SendRaw(SendRaw(SendRaw([s EXCEPT !.registration_complete = FALSE],
                                 [cmd |-> "NICK", nick |-> s.current_nick]),
                         [cmd |-> "USER"]),
                 [cmd |-> "CAP", text |-> <<"END">>])

\* No connect() has returned yet: run() is still in its first call.
FirstConnect == ev.type = "init" \/ (ev.type = "connect_failed" /\ ~ev.again)

\* The first connect() of the run, and IRCBot.reconnect afterwards, which
\* writes the JOINs right after connect().
ConnectStep(horizon) ==
    /\ Inbound(horizon)
    /\ \E s \in {[ConnectTo([St EXCEPT !.out = <<>>], Get(config, "sasl", D(EmptyDict)).d)
                 EXCEPT !.connected = TRUE, !.sock = "open"]} :
          Commit(IF FirstConnect THEN s ELSE JoinChannels(s, 1))
    /\ ev' = [type |-> "connect", again |-> ~FirstConnect, server |-> current_server_index]
    /\ UNCHANGED <<nsent, waited, idled, lastwait, arrivals, ban_hosts, inbox>>
    /\ UNCHANGED reloadVars

\* The step when the server's view of the bot is not followed.
Connect(horizon) == ConnectStep(horizon) /\ UNCHANGED presence

\* An iteration of connect()'s loop whose attempt raises (refused, TLS
\* failure): the index moves to the next server and the loop sleeps 5 s.
RetryDelay == 5
ConnectFails(horizon) ==
    /\ ~connected
    /\ now + RetryDelay <= StartTime + horizon
    /\ Commit([St EXCEPT !.connected = FALSE, !.sock = "none",
                         !.current_server_index = (@ + 1) % Len(servers),
                         !.now = @ + RetryDelay, !.out = <<>>])
    /\ ev' = [type |-> "connect_failed", again |-> ~FirstConnect,
              server |-> current_server_index]
    /\ UNCHANGED ghostVars
    /\ UNCHANGED reloadVars

\* listen_loop reads end of file: the bot is marked disconnected and
\* reconnect() is entered, whose connect() loop makes the next attempts.
LostStep(horizon) ==
    /\ connected
    /\ Inbound(horizon)
    /\ Commit([St EXCEPT !.connected = FALSE, !.out = <<>>])
    /\ ev' = [type |-> "lost", server |-> current_server_index]
    /\ UNCHANGED <<nsent, waited, idled, lastwait, arrivals, ban_hosts, inbox>>
    /\ UNCHANGED reloadVars

\* The step when the server's view of the bot is not followed.
Lost(horizon) == LostStep(horizon) /\ UNCHANGED presence

\* recv raises socket.error: listen_loop sleeps and reads again.
ReadError(horizon) ==
    /\ connected
    /\ Inbound(horizon)
    /\ Commit([St EXCEPT !.out = <<>>])
    /\ ev' = [type |-> "read_error", server |-> current_server_index]
    /\ UNCHANGED <<nsent, waited, idled, lastwait, arrivals, ban_hosts, presence, inbox>>
    /\ UNCHANGED reloadVars

(***************************************************************************)
(* Flood protection: a room with floodpro configured, an admin pattern,    *)
(* users that join, are opped and speak.                                   *)
(***************************************************************************)
NextFlood ==
    \/ BotJoin(MaxTime)
    \/ UserJoin(MaxTime, {"y"}, {"h"})
    \/ Mode(MaxTime, {"y"})
    \/ ChannelMessage(MaxTime, { <<"x", "h">>, <<"y", "h">>, <<"y", "g">> },
                      { <<"hi">> }, { <<"ok">> })
    \/ Tick(MaxTime)
SpecFlood ==
    /\ Construct(("nick" :> V(BotNick)) @@
                 ("admins" :> V(<< <<"*", "!", "*", "@", "g">> >>)),
                 << ("name" :> V(Room)) @@
                    ("chat_history" :> V(FloodHistorySize)) @@
                    ("floodpro" :> D(("lines" :> V(FloodLines)) @@
                                     ("seconds" :> V(FloodSeconds)) @@
                                     ("ban_time" :> V(BanMinutes)))) >>)
    /\ [][NextFlood]_vars

\* Some line of the kind is among the lines.
HasCmd(lines, c) == \E i \in 1..Len(lines) : lines[i].cmd = c

\* C2: while a ban recorded for a host in the room is unexpired, no channel
\* message from an identity on that host, whatever its nick, is processed:
\* nothing is appended to the chat log and nothing is said in the room.
C2_BanCoversHost ==
    [][ (ev'.type = "PRIVMSG" /\ ev'.joined /\ ev'.covered)
            => (chat_history' = chat_history /\ ~HasCmd(out', "PRIVMSG")) ]_vars

\* C3: when the FloodLines-th message of a non-exempt user arrives within
\* FloodSeconds seconds, the bot writes MODE +b *!*@host and then KICK, in
\* that order, records a ban until now + BanMinutes*60 and clears the
\* user's window; a message that is not the FloodLines-th within
\* FloodSeconds seconds records no ban and writes neither line.
C3_FloodBan ==
    [][ (ev'.type = "PRIVMSG" /\ ev'.joined /\ ~ev'.banned) =>
          LET n == ev'.nick IN
          /\ (ev'.lth /\ ~ev'.exempt) =>
                /\ out' = << [cmd |-> "MODE", channel |-> Room, mode |-> "+b",
                              mask |-> <<"*", "!", "*", "@", ev'.userhost[3]>>],
                             [cmd |-> "KICK", channel |-> Room, nick |-> n,
                              minutes |-> BanMinutes] >>
                /\ n \in DOMAIN banned_users'[Room]
                /\ banned_users'[Room][n] = now + BanMinutes * SecondsPerMinute
                /\ channel_history'[Room][n] = <<>>
          /\ ~ev'.lth =>
                /\ n \notin DOMAIN banned_users'[Room]
                /\ DOMAIN banned_users'[Room] \subseteq DOMAIN banned_users[Room]
                /\ ~HasCmd(out', "MODE") /\ ~HasCmd(out', "KICK") ]_vars

\* A user who is neither op nor admin has just sent its FloodLines-th message
\* within the window and was banned and kicked for it.
C3_Witness ==
    /\ ev.type = "PRIVMSG" /\ ev.joined /\ ~ev.banned /\ ev.lth /\ ~ev.exempt
    /\ Len(out) = 2 /\ out[1].cmd = "MODE" /\ out[2].cmd = "KICK"
    /\ ev.nick \in DOMAIN banned_users[Room]
    /\ banned_users[Room][ev.nick] > now

\* C4: a channel message of a user who holds op in the room or is a bot
\* admin scores no timestamp, records no ban and causes no MODE +b or KICK.
C4_ExemptBypass ==
    [][ (ev'.type = "PRIVMSG" /\ ev'.joined /\ ev'.exempt) =>
          /\ channel_history' = channel_history
          /\ DOMAIN banned_users'[Room] \subseteq DOMAIN banned_users[Room]
          /\ ~HasCmd(out', "MODE") /\ ~HasCmd(out', "KICK") ]_vars

(***************************************************************************)
(* The router: a room with mentions enabled and no flood protection, users *)
(* that speak to the room, to the bot, about the bot, and give commands.   *)
(***************************************************************************)
NextRouter ==
    \/ BotJoin(RouterTime)
    \/ ChannelMessage(RouterTime, { <<"x", "h">>, <<"y", "g">> },
                      { <<"hi">>, <<"hi", BotNick>>, <<BotNick, ":", "hi">>,
                        <<"!", "say", "yo">> },
                      { <<>>, <<"ok">> })
    \/ Tick(RouterTime)
SpecRouter ==
    /\ Construct(("nick" :> V(BotNick)) @@ ("ai_mention" :> V(TRUE)),
                 << ("name" :> V(Room)) @@ ("chat_history" :> V(HistorySize)) >>)
    /\ [][NextRouter]_vars

\* C5: when the chat-log entry preceding an incoming room message was spoken
\* by the bot and the message is neither a command nor a direct address, the
\* bot says nothing in reply, even if the message mentions its nick.
C5_NoReplyAfterOwnLine ==
    [][ (/\ ev'.type = "PRIVMSG" /\ ev'.joined /\ ev'.was_last
         /\ ~IsDirect(St, ev'.message)
         /\ Head(ev'.message) # "!")
            => ~HasCmd(out', "PRIVMSG") ]_vars

(***************************************************************************)
(* core/irc.py: the scheduler, random_actions_loop.                        *)
(***************************************************************************)
\* IRCBot._random_chat(channel).  message is the language model's idle line.
RandomChat(s, channel_name, message) ==
    IF DOMAIN s.channel_users = {} THEN s
    ELSE IF ~IsInChannel(s, channel_name) THEN s
    ELSE IF Cfg(s, channel_name, "idle_chat_interval", 0) <= 0 THEN s
    ELSE IF /\ Get(s.chat_history, Lower(channel_name), <<>>) # <<>>
            /\ s.now - Get(s.last_chat_times, Lower(channel_name), 0)
                 < Cfg(s, channel_name, "idle_chat_time",
                       Cfg(s, channel_name, "idle_chat_interval", 0))
    THEN s
    ELSE IF WasLastSpeaker(s, channel_name) THEN s
    ELSE SendChannelMessage(s, channel_name, message, TRUE)

\* The actions enabled by the room's random_actions block.
TrueKeys(d) == {a \in DOMAIN d : d[a].v}

\* TrueKeys(d): the keys of a block whose value is true.
EnabledActions(s, channel_name) ==
    TrueKeys(GetChannelConfig(s.config, s.channels, channel_name, "random_actions",
                              D(("kick" :> V(TRUE)) @@ ("topic" :> V(TRUE)))).d)

\* AIClient.get_recent_users: the speakers of the room's chat log.
Speakers(h) == {h[i].nick : i \in 1..Len(h)}

\* Speakers(h): the nicks of the entries of a chat log.

\* The kick targets of _random_action: recent speakers that are still
\* members, are not the bot and hold no op.
Kickable(s, members, recent) ==
    {n \in recent :
        /\ n \in DOMAIN members
        /\ Lower(n) # Lower(s.current_nick)
        /\ ~members[n].op}

\* members is the room's member table, recent its recent speakers.
PossibleTargets(s, channel_name) ==
    Kickable(s, Get(s.channel_users, channel_name, EmptyDict),
             Speakers(Get(s.chat_history, channel_name, <<>>)))

\* IRCBot._random_action(channel).  action is the drawn action and topic the
\* language model's topic.  With a kick target at hand the call of
\* generate_kick_reason(prompt, channel=...) passes `channel` twice and
\* raises TypeError before anything is sent.
\* _random_action from the op check on; members is the room's member table.
ActAsOp(s, channel_name, action, topic, members) ==
    IF ~(s.current_nick \in DOMAIN members /\ members[s.current_nick].op)
    THEN [s |-> s, raised |-> FALSE]
    ELSE IF action \notin EnabledActions(s, channel_name) THEN [s |-> s, raised |-> FALSE]
    ELSE IF action = "topic"
    THEN IF topic # <<>>
         THEN [s |-> SendRaw(s, [cmd |-> "TOPIC", channel |-> channel_name, text |-> topic]),
               raised |-> FALSE]
         ELSE [s |-> s, raised |-> FALSE]
    ELSE IF action = "kick" /\ PossibleTargets(s, channel_name) # {}
    THEN [s |-> s, raised |-> TRUE]
    ELSE [s |-> s, raised |-> FALSE]

RandomAction(s, channel_name, action, topic) ==
    IF DOMAIN s.channel_users = {} THEN [s |-> s, raised |-> FALSE]
    ELSE IF ~IsInChannel(s, channel_name) THEN [s |-> s, raised |-> FALSE]
    ELSE IF Cfg(s, channel_name, "random_action_interval", 0) <= 0
    THEN [s |-> s, raised |-> FALSE]
    ELSE IF s.now - Get(s.last_chat_times, Lower(channel_name), 0)
              < Cfg(s, channel_name, "idle_chat_time",
                    Cfg(s, channel_name, "random_action_interval", 0))
    THEN [s |-> s, raised |-> FALSE]
    ELSE ActAsOp(s, channel_name, action, topic, Get(s.channel_users, channel_name, EmptyDict))

\* The body of the loop over the rooms in random_actions_loop, for one room.
\* t0 is the time read at the top of the iteration; inp holds what the
\* language model and random.choice return in this iteration.
\* The continuation check of the loop body: with the deadline reached inside
\* the continuation window a continuation is sent, or, with an empty log or
\* no text from the language model, the deadline is only moved.
SchedContinuation(s, t0, channel_name, cont) ==
    IF /\ ShouldContinueConversation(s, channel_name)
       /\ Get(s.conversation_timers, Lower(channel_name), 0) - t0 <= 0
    THEN IF Get(s.chat_history, Lower(channel_name), <<>>) # <<>> /\ cont # <<>>
         THEN SendChannelMessage(s, channel_name, cont, TRUE)
         ELSE ScheduleNextResponse(s, channel_name)
    ELSE s

\* ra is what _random_action did: an exception leaves the loop body, else
\* the action timer is reset and the continuation check follows.
SchedAfterAction(ra, t0, channel_name, inp) ==
    IF ra.raised THEN [s |-> ra.s, raised |-> TRUE]
    ELSE [s |-> SchedContinuation(
                    [ra.s EXCEPT !.last_action_times = Put(@, Lower(channel_name), t0)],
                    t0, channel_name, inp.cont),
          raised |-> FALSE]

ActionDue(t0, random_action_interval, last_action) ==
    /\ random_action_interval > 0
    /\ Max(0, random_action_interval - (t0 - last_action)) <= 0

\* The random-action check of the loop body: a due action is skipped, with
\* the rest of the body, when the bot was the last speaker.
SchedAction(s, t0, channel_name, inp) ==
    IF ActionDue(t0, Cfg(s, channel_name, "random_action_interval", 0),
                 Get(s.last_action_times, Lower(channel_name), 0))
    THEN IF WasLastSpeaker(s, channel_name) THEN [s |-> s, raised |-> FALSE]
         ELSE SchedAfterAction(RandomAction(s, channel_name, inp.action, inp.topic),
                               t0, channel_name, inp)
    ELSE [s |-> SchedContinuation(s, t0, channel_name, inp.cont), raised |-> FALSE]

\* The check without the two comparisons of the idle time.
IdleDueLax(t0, idle_chat_interval, idle_chat_time, last_chat) ==
    /\ idle_chat_interval > 0
    /\ t0 - last_chat >= 0

IdleDue(t0, idle_chat_interval, idle_chat_time, last_chat) ==
    /\ idle_chat_interval > 0
    /\ t0 - last_chat >= idle_chat_time
    /\ Max(0, idle_chat_interval - (t0 - last_chat)) <= 0

\* The idle-chat check of the loop body.
SchedIdle(s, t0, channel_name, inp) ==
    SchedAction(
        IF IdleDue(t0, Cfg(s, channel_name, "idle_chat_interval", 0),
                   Cfg(s, channel_name, "idle_chat_time",
                       Cfg(s, channel_name, "idle_chat_interval", 0)),
                   Get(s.last_chat_times, Lower(channel_name), 0))
        THEN [RandomChat(s, channel_name, inp.idle)
                  EXCEPT !.last_chat_times = Put(@, Lower(channel_name), t0)]
        ELSE s,
        t0, channel_name, inp)

\* sl is what is_sleeping returned.
SchedAwake(sl, t0, channel_name, inp) ==
    IF sl.sleeping THEN [s |-> sl.s, raised |-> FALSE]
    ELSE SchedIdle(sl.s, t0, channel_name, inp)

SchedChannel(s, t0, channel_name, inp) ==
    IF ~IsInChannel(s, channel_name) THEN [s |-> s, raised |-> FALSE]
    ELSE SchedAwake(IsSleeping(s, channel_name), t0, channel_name, inp)

\* for channel in self.channels, from the i-th room on; an exception ends
\* the iteration and is followed by time.sleep(1).
RECURSIVE SchedRooms(_, _, _, _)
\* r is what the loop body did for the i-th room.
SchedNext(r, t0, i, inp) ==
    IF r.raised THEN [r.s EXCEPT !.now = @ + 1]
    ELSE SchedRooms(r.s, t0, i + 1, inp)

SchedRooms(s, t0, i, inp) ==
    IF i > Len(s.channels) THEN s
    ELSE SchedNext(SchedChannel(s, t0, s.channels[i]["name"].v, inp), t0, i, inp)

\* One iteration of the while loop of random_actions_loop when no reload is
\* in progress.
RandomActionsIteration(s, inp) == SchedRooms(s, s.now, 1, inp)

(***************************************************************************)
(* The scheduler: a room with continuation enabled, a user that speaks to  *)
(* the room and to the bot, and the iterations of the scheduler.           *)
(***************************************************************************)
\* The continuation deadline of the room has been reached: the bot is in the
\* room and awake, the conversation is live and nextContinuation <= now.
DeadlineDue ==
    /\ IsInChannel(St, Room)
    /\ ~IsSleeping(St, Room).sleeping
    /\ ShouldContinueConversation(St, Room)
    /\ Get(conversation_timers, Lower(Room), 0) <= now

\* An iteration of the scheduler.  The event keeps whether the continuation
\* deadline was due and whether the bot was the last speaker when it began.
SchedulerAt(horizon) ==
    /\ Inbound(horizon)
    /\ \E cont \in { <<>>, <<"ok">> } :
        /\ Commit(RandomActionsIteration([St EXCEPT !.out = <<>>],
                    [idle |-> <<>>, action |-> "topic", topic |-> <<>>, cont |-> cont]))
        /\ ev' = [type |-> "sched", due |-> DeadlineDue,
                  was_last |-> WasLastSpeaker(St, Room), cont |-> cont]
    /\ UNCHANGED <<nsent, waited, idled, lastwait, arrivals, ban_hosts, presence, inbox>>
    /\ UNCHANGED reloadVars

SchedulerStep == SchedulerAt(SchedTime)

NextSched ==
    \/ BotJoin(SchedTime)
    \/ ChannelMessage(SchedTime, { <<"x", "h">> }, { <<"hi">>, <<BotNick, ":", "hi">> },
                      { <<>>, <<"ok">> })
    \/ SchedulerStep
    \/ Tick(SchedTime)
SpecSched ==
    /\ Construct("nick" :> V(BotNick),
                 << ("name" :> V(Room)) @@
                    ("chat_history" :> V(HistorySize)) @@
                    ("ai_continue" :> V(TRUE)) @@
                    ("ai_continue_freq" :> V(ContinueFreq)) >>)
    /\ [][NextSched]_vars

\* C6: when the continuation deadline fires while the last chat-log entry is
\* the bot's own, the scheduler sends nothing and only sets the room's next
\* continuation to now + continueFreq.
C6_NoSelfContinuation ==
    [][ (ev'.type = "sched" /\ ev'.due /\ ev'.was_last) =>
          /\ out' = <<>>
          /\ chat_history' = chat_history
          /\ conversation_timers' = Put(conversation_timers, Lower(Room), now + ContinueFreq)
      ]_vars

(***************************************************************************)
(* The configuration view: get_channel_config over configurations with a   *)
(* plain key, a nested block and a literal dotted key, set or not, in the  *)
(* room's tree and in the global tree.                                     *)
(***************************************************************************)
Opt(k, vals) == {EmptyDict} \cup {k :> v : v \in vals}
ConfigGlobals ==
    {a @@ b @@ c : a \in Opt("k", {V(1)}),
                   b \in Opt("a", {D(EmptyDict), D("b" :> V(2))}),
                   c \in Opt("a.b", {V(5)})}
ConfigRooms ==
    {("name" :> V(Room)) @@ a @@ b :
                   a \in Opt("k", {V(3)}),
                   b \in Opt("a", {D(EmptyDict), D("b" :> V(4))})}
InitConfig == \E cfg \in ConfigGlobals, ch \in ConfigRooms : Construct(cfg, <<ch>>)

\* A call of get_channel_config; the event keeps the arguments and the result.
Lookup ==
    \E channel \in {"#r", "#R", "#q"}, key \in {"k", "a.b", "z"} :
        /\ ev' = [type |-> "config", channel |-> channel, key |-> key,
                  result |-> GetChannelConfig(config, channels, channel, key, V(0))]
        /\ UNCHANGED <<botVars, ghostVars>>
        /\ UNCHANGED reloadVars

SpecConfig == InitConfig /\ [][Lookup]_vars

\* C10: get_channel_config(r, k, d) is the room's value for k if the room
\* defines one, else the global value for k, found by following the dotted
\* segments of k through the global tree too, else d.
C10_RoomGlobalDefault ==
    ev.type = "config" =>
        LET i == FindChannel(channels, ev.channel)
            room == IF i # 0 THEN Walk(D(channels[i]), Split(ev.key))
                    ELSE [found |-> FALSE, val |-> V(0)]
            global == Walk(D(config), Split(ev.key))
        IN  ev.result = IF room.found THEN room.val
                        ELSE IF global.found THEN global.val
                        ELSE V(0)

(***************************************************************************)
(* core/irc.py: update_config, and utils/reloader.py: the swap.            *)
(***************************************************************************)
\* The loop of AIClient.update_config over the rooms from the i-th on: a
\* chat log longer than the room's own chat_history is cut to its tail.
\* The log of room c cut to its last `size` entries.
TrimLog(logs, c, size) ==
    IF c \in DOMAIN logs /\ Len(logs[c]) > size
    THEN Put(logs, c, IF size = 0 THEN logs[c]
                      ELSE SubSeq(logs[c], Len(logs[c]) - size + 1, Len(logs[c])))
    ELSE logs

RECURSIVE TrimLogs(_, _, _)
TrimLogs(logs, chs, i) ==
    IF i > Len(chs) THEN logs
    ELSE TrimLogs(TrimLog(logs, Lower(chs[i]["name"].v),
                          Get(chs[i], "chat_history", V(TrimHistory)).v),
                  chs, i + 1)

\* The loop of IRCBot.update_config that restarts the idle-chat and
\* random-action clocks that are past the interval now configured.
\* The idle-chat timer of room c is set to now if the interval has passed.
ResetIdle(s, c, idle) ==
    IF idle > 0 /\ s.now - Get(s.last_chat_times, c, s.now) >= idle
    THEN [s EXCEPT !.last_chat_times = Put(@, c, s.now)] ELSE s

\* The random-action timer of room c is set to now if the interval has passed.
ResetAction(s, c, act) ==
    IF act > 0 /\ s.now - Get(s.last_action_times, c, s.now) >= act
    THEN [s EXCEPT !.last_action_times = Put(@, c, s.now)] ELSE s

\* The timers of the room called name.
ResetRoom(s, name) ==
    ResetAction(ResetIdle(s, Lower(name), Cfg(s, name, "idle_chat_interval", 0)),
                Lower(name), Cfg(s, name, "random_action_interval", 0))

RECURSIVE ResetTimers(_, _)
ResetTimers(s, i) ==
    IF i > Len(s.channels) THEN s
    ELSE ResetTimers(ResetRoom(s, s.channels[i]["name"].v), i + 1)

\* IRCBot.update_config for a complete configuration that leaves the rate
\* limiter settings and the user mode as they were: the trees and the
\* identity settings are replaced, the admin cache is cleared, the chat logs
\* are trimmed, the flood protection is replaced by a new object with empty
\* tables.
UpdateConfig(s, cfg, chs) ==
    ResetTimers(
        [s EXCEPT !.config = cfg, !.channels = chs,
                  !.nick = Get(cfg, "nick", V(BotNick)).v,
                  !.realname = Get(cfg, "realname", V(DefaultIdentity)).v,
                  !.ident = Get(cfg, "ident", V(DefaultIdentity)).v,
                  !.servers = Get(cfg, "servers", V(<<"s1">>)).v,
                  !.perm_config = cfg, !.admin_cache = EmptyDict,
                  !.chat_history = TrimLogs(@, chs, 1),
                  !.fp_config = cfg, !.fp_channels = chs,
                  !.channel_history = [c \in {Room} |-> [n \in AllNicks |-> <<>>]],
                  !.privmsg_history = [n \in AllNicks |-> <<>>],
                  !.ignored_users = EmptyDict,
                  !.banned_users = [c \in {Room} |-> EmptyDict]], 1)

\* The steps of the swap in reload_modules at which an exception can be
\* raised, in the order in which they run.
SwapSteps == <<"utils", "permissions", "irc", "commands", "handler",
               "command_modules", "recreate", "load">>
StepIndex(step) == CHOOSE i \in 1..Len(SwapSteps) : SwapSteps[i] = step

\* The try block of reload_modules.  fail_at is the step that raises, or
\* "none".  A step that raises ends the swap with `return False`; what the
\* steps before it installed stays installed.  s is the bot, inst the
\* objects it holds.
Swap(s, inst, fail_at) ==
    LET n == IF fail_at = "none" THEN Len(SwapSteps) + 1 ELSE StepIndex(fail_at)
        done(step) == StepIndex(step) < n
        s1 == IF done("permissions")
              THEN [s EXCEPT !.perm_config = s.config, !.admin_cache = EmptyDict] ELSE s
        s2 == IF done("recreate")
              THEN [s1 EXCEPT !.fp_config = s.config, !.fp_channels = s.channels] ELSE s1
        s3 == IF done("recreate")
              THEN [s2 EXCEPT !.commands = IF done("load") THEN AllCommands ELSE {}] ELSE s2
        inst1 == [inst EXCEPT
                    !.permissions = IF done("permissions") THEN @ + 1 ELSE @,
                    !.handler = IF done("handler") THEN @ + 1 ELSE @,
                    !.ai_client = IF done("recreate") THEN @ + 1 ELSE @,
                    !.floodpro = IF done("recreate") THEN @ + 1 ELSE @]
    IN  [s |-> s3, instances |-> inst1, ok |-> fail_at = "none"]

(***************************************************************************)
(* The hot reload: the reader thread, the scheduler thread and a full      *)
(* reload requested by SIGUSR1 (run by the main thread) or by the reload   *)
(* command (run by the reader thread), over a joined room, with a          *)
(* configuration file that changes idle_chat_interval.                     *)
(***************************************************************************)
ReloadGlobalConfig ==
    ("nick" :> V(BotNick)) @@ ("ai_prompt_idle" :> V("idle"))
ReloadRoomConfig(idle) ==
    ("name" :> V(Room)) @@
    ("chat_history" :> V(HistorySize)) @@
    ("idle_chat_interval" :> V(idle))
InitReload ==
    ConstructWith(ReloadGlobalConfig, <<ReloadRoomConfig(OldIdle)>>,
                  [config |-> ReloadGlobalConfig, channels |-> <<ReloadRoomConfig(NewIdle)>>])

\* What a reload is measured against: the configuration, the objects, the
\* command table and the flood tables in effect when it is requested.
Snapshot(s) ==
    [config |-> s.config, channels |-> s.channels, commands |-> s.commands,
     instances |-> instances,
     flood |-> [channel_history |-> s.channel_history, privmsg_history |-> s.privmsg_history,
                ignored_users |-> s.ignored_users, banned_users |-> s.banned_users]]

\* A step of a thread that only moves the thread.
ThreadStep(t) ==
    /\ threads' = t
    /\ ev' = [type |-> "step"]
    /\ UNCHANGED <<botVars, ghostVars, reload_paused, instances, disk, ctl, pre>>

\* listen_loop, top of the while loop: paused, the reader marks itself idle
\* and sleeps; otherwise it marks itself processing and polls the socket.
ReaderTop ==
    /\ threads.reader.pc = "top"
    /\ ThreadStep(IF reload_paused
                  THEN [threads EXCEPT !.reader.is_processing = FALSE]
                  ELSE [threads EXCEPT !.reader.is_processing = TRUE, !.reader.pc = "recv"])

\* listen_loop: recv times out, or the data received is left in the buffer
\* because a pause was requested; the reader marks itself idle.
ReaderTimeout ==
    /\ threads.reader.pc = "recv"
    /\ ThreadStep([threads EXCEPT !.reader.is_processing = FALSE, !.reader.pc = "top"])

\* The reader after handle_line returned: `finally` clears is_processing if
\* a pause has been requested meanwhile.
ReaderDone(paused) ==
    [threads EXCEPT !.reader.pc = "top",
                    !.reader.is_processing = IF paused THEN FALSE ELSE @]

\* listen_loop: the server's echo of the bot's JOIN is handled.
ReaderJoin ==
    /\ threads.reader.pc = "recv" /\ ~reload_paused
    /\ ~IsInChannel(St, Room)
    /\ Commit(HandleJoin([St EXCEPT !.out = <<>>], current_nick, UserHost("b"), Room, <<>>))
    /\ threads' = ReaderDone(reload_paused)
    /\ ev' = [type |-> "JOIN", nick |-> current_nick]
    /\ UNCHANGED <<ghostVars, reload_paused, instances, disk, ctl, pre>>

\* listen_loop: a room message of a user is handled.  Users speak while the
\* room's chat log is not full.
ReaderMessage ==
    /\ threads.reader.pc = "recv" /\ ~reload_paused
    /\ IsInChannel(St, Room)
    /\ Len(Get(chat_history, Lower(Room), <<>>)) < HistorySize
    /\ LET s0 == TrackUser([St EXCEPT !.out = <<>>], "x", UserHost("h")) IN
       Commit(HandlePrivmsg(s0, "x", UserHost("h"), Room, <<"hi">>, <<>>, 0))
    /\ threads' = ReaderDone(reload_paused)
    /\ ev' = [type |-> "step"]
    /\ UNCHANGED <<ghostVars, reload_paused, instances, disk, ctl, pre>>

\* random_actions_loop, top of the while loop.
SchedTop ==
    /\ threads.sched.alive /\ threads.sched.pc = "top"
    /\ ThreadStep(IF reload_paused
                  THEN [threads EXCEPT !.sched.is_processing = FALSE]
                  ELSE [threads EXCEPT !.sched.is_processing = TRUE, !.sched.pc = "work"])

\* random_actions_loop: the loop over the rooms.  With a pause requested
\* the loop is left at once, the sleep is skipped and `break` ends the
\* while loop, and with it the thread.
SchedWork ==
    /\ threads.sched.alive /\ threads.sched.pc = "work"
    /\ IF reload_paused
       THEN /\ threads' = [threads EXCEPT !.sched.is_processing = FALSE,
                                          !.sched.alive = FALSE, !.sched.pc = "dead"]
            /\ ev' = [type |-> "step"]
            /\ UNCHANGED botVars
       ELSE /\ Commit(RandomActionsIteration([St EXCEPT !.out = <<>>],
                        [idle |-> <<"ok">>, action |-> "topic", topic |-> <<>>, cont |-> <<>>]))
            /\ threads' = [threads EXCEPT !.sched.pc = "sleep"]
            /\ ev' = [type |-> "sched", due |-> FALSE, was_last |-> WasLastSpeaker(St, Room),
                      cont |-> <<>>]
    /\ UNCHANGED <<ghostVars, reload_paused, instances, disk, ctl, pre>>

\* random_actions_loop: the sleep between two iterations ends.  The thread
\* is still marked processing while it sleeps; a pause requested ends the
\* sleep, then `break` ends the while loop, and with it the thread.
SchedWake ==
    /\ threads.sched.alive /\ threads.sched.pc = "sleep"
    /\ ThreadStep(IF reload_paused
                  THEN [threads EXCEPT !.sched.is_processing = FALSE,
                                       !.sched.alive = FALSE, !.sched.pc = "dead"]
                  ELSE [threads EXCEPT !.sched.pc = "top"])

\* A step of the reload that changes neither the bot nor the threads.
CtlStep(c) ==
    /\ ctl' = c
    /\ ev' = [type |-> "step"]
    /\ UNCHANGED <<botVars, ghostVars, reload_paused, instances, disk, threads, pre>>

\* SIGUSR1 arrives: the main thread calls reload_modules.  One full reload is
\* requested in a run, by the signal or by the command.
Signal ==
    /\ ctl.pc = "idle" /\ ~ctl.requested
    /\ IsInChannel(St, Room)
    /\ ctl' = [ctl EXCEPT !.pc = "pause", !.entry = "signal", !.ok = TRUE,
                          !.requested = TRUE]
    /\ pre' = Snapshot(St)
    /\ ev' = [type |-> "step"]
    /\ UNCHANGED <<botVars, ghostVars, reload_paused, instances, disk, threads>>

\* The reader handles "!reload" of a user: ReloadCommand.execute starts on
\* the reader thread with preserve_state.
ReaderReload ==
    /\ threads.reader.pc = "recv" /\ ~reload_paused
    /\ ctl.pc = "idle" /\ ~ctl.requested
    /\ IsInChannel(St, Room)
    /\ \E s0 \in {TrackUser([St EXCEPT !.out = <<>>], "x", UserHost("h"))} :
       \E cmd_config \in {GetChannelCommandConfig(s0, Room, "reload")} :
       \E p \in {CheckCommandPermissions(s0, "x", Room, cmd_config)} :
           /\ "reload" \in s0.commands
           /\ Get(cmd_config, "enabled", V(TRUE)).v
           /\ p.ok
           /\ Commit(p.s)
           /\ pre' = Snapshot(p.s)
    /\ threads' = [threads EXCEPT !.reader.pc = "reload"]
    /\ ctl' = [ctl EXCEPT !.pc = "config", !.entry = "command", !.ok = TRUE,
                          !.requested = TRUE]
    /\ ev' = [type |-> "step"]
    /\ UNCHANGED <<ghostVars, reload_paused, instances, disk>>

\* ReloadCommand.execute: reload_config.  The file is read and applied with
\* update_config, or reading it fails.
ReloadConfig ==
    /\ ctl.pc = "config"
    /\ \E readable \in BOOLEAN :
        IF readable
        THEN /\ Commit(UpdateConfig([St EXCEPT !.out = <<>>], disk.config, disk.channels))
             /\ ctl' = [ctl EXCEPT !.pc = "pause"]
        ELSE /\ UNCHANGED botVars
             /\ ctl' = [ctl EXCEPT !.pc = "finish", !.ok = FALSE, !.failed = "config"]
    /\ ev' = [type |-> "reload_config"]
    /\ UNCHANGED <<ghostVars, reload_paused, instances, disk, threads, pre>>

\* _pause_threads up to the wait: the live threads named RandomActionsLoop
\* or ListenLoop are looked up.  The reader thread is started without a
\* name, so only the scheduler can be found; with no thread found nothing is
\* paused.
Pause ==
    /\ ctl.pc = "pause"
    /\ IF threads.sched.alive
       THEN /\ reload_paused' = TRUE
            /\ ctl' = [ctl EXCEPT !.pc = "wait", !.paused = TRUE,
                                  !.original_state = reload_paused,
                                  !.deadline = now + ThreadTimeout]
       ELSE /\ UNCHANGED reload_paused
            /\ ctl' = [ctl EXCEPT !.pc = "swap", !.paused = FALSE]
    /\ ev' = [type |-> "step"]
    /\ UNCHANGED <<botVars, ghostVars, instances, disk, threads, pre>>

\* _pause_threads: before the deadline every thread found is seen idle.
PauseDone ==
    /\ ctl.pc = "wait" /\ now < ctl.deadline
    /\ ~threads.sched.is_processing
    /\ CtlStep([ctl EXCEPT !.pc = "swap"])

\* _pause_threads: the deadline passes with a thread still marked
\* processing and ReloadError is raised; it leaves reload_modules through
\* the outer handler, which returns False.
PauseTimeout ==
    /\ ctl.pc = "wait" /\ now >= ctl.deadline
    /\ threads.sched.is_processing
    /\ CtlStep([ctl EXCEPT !.pc = "finish", !.ok = FALSE, !.timeout = "pause"])

\* reload_modules: the swap.  The event keeps which threads were marked
\* processing when it began.
DoSwap ==
    /\ ctl.pc = "swap"
    /\ \E fail_at \in {"none"} \cup {SwapSteps[i] : i \in 1..Len(SwapSteps)} :
       \E r \in {Swap([St EXCEPT !.out = <<>>], instances, fail_at)} :
        /\ Commit(r.s)
        /\ instances' = r.instances
        /\ ctl' = [ctl EXCEPT !.pc = "resume", !.ok = r.ok, !.failed = fail_at]
    /\ ev' = [type |-> "swap", reader |-> threads.reader.is_processing,
              sched |-> threads.sched.is_processing]
    /\ UNCHANGED <<ghostVars, reload_paused, disk, threads, pre>>

\* _resume_threads up to the wait: reload_paused is set back.
Resume ==
    /\ ctl.pc = "resume"
    /\ reload_paused' = IF ctl.paused THEN ctl.original_state ELSE FALSE
    /\ ctl' = IF ctl.paused
              THEN [ctl EXCEPT !.pc = "resuming", !.deadline = now + ThreadTimeout]
              ELSE [ctl EXCEPT !.pc = "finish"]
    /\ ev' = [type |-> "step"]
    /\ UNCHANGED <<botVars, ghostVars, instances, disk, threads, pre>>

\* _resume_threads: before the deadline a dead scheduler thread is replaced
\* by a new one, a live one is seen processing.
ResumeDone ==
    /\ ctl.pc = "resuming" /\ now < ctl.deadline
    /\ \/ /\ ~threads.sched.alive
          /\ threads' = [threads EXCEPT !.sched = [pc |-> "top", is_processing |-> FALSE,
                                                   alive |-> TRUE]]
       \/ /\ threads.sched.alive
          /\ ctl.original_state \/ threads.sched.is_processing
          /\ UNCHANGED threads
    /\ ctl' = [ctl EXCEPT !.pc = "finish"]
    /\ ev' = [type |-> "step"]
    /\ UNCHANGED <<botVars, ghostVars, reload_paused, instances, disk, pre>>

\* _resume_threads: the deadline passes with the live thread not yet marked
\* processing; reload_modules returns False.
ResumeTimeout ==
    /\ ctl.pc = "resuming" /\ now >= ctl.deadline
    /\ threads.sched.alive /\ ~ctl.original_state /\ ~threads.sched.is_processing
    /\ CtlStep([ctl EXCEPT !.pc = "finish", !.ok = FALSE, !.timeout = "resume"])

\* The reload returns.  SIGUSR1: the handler logs the result.  The command:
\* after success restore_state puts back the flood tables preserve_state
\* kept; the result is said in the room and the reader goes on.
Finish ==
    /\ ctl.pc = "finish"
    /\ IF ctl.entry = "command"
       THEN LET s0 == [St EXCEPT !.out = <<>>]
                s1 == IF ctl.ok
                      THEN [s0 EXCEPT !.channel_history = pre.flood.channel_history,
                                      !.privmsg_history = pre.flood.privmsg_history,
                                      !.ignored_users = pre.flood.ignored_users,
                                      !.banned_users = pre.flood.banned_users]
                      ELSE s0
                text == IF ctl.ok THEN <<"Successfully", "reloaded">> ELSE <<"Failed", "to", "reload">>
            IN  /\ Commit(SendChannelMessage(s1, Room, text, FALSE))
                /\ threads' = ReaderDone(reload_paused)
       ELSE /\ UNCHANGED <<botVars, threads>>
    /\ ctl' = [ctl EXCEPT !.pc = "idle", !.entry = "none", !.paused = FALSE,
                          !.original_state = FALSE, !.deadline = 0, !.ok = TRUE,
                          !.timeout = "none", !.failed = "none"]
    /\ ev' = [type |-> "reload_end", entry |-> ctl.entry, ok |-> ctl.ok,
              timeout |-> ctl.timeout, failed |-> ctl.failed]
    /\ UNCHANGED <<ghostVars, reload_paused, instances, disk, pre>>

\* A second passes.
ReloadTick ==
    /\ now + 1 <= StartTime + ReloadTime
    /\ Commit([St EXCEPT !.now = @ + 1, !.out = <<>>])
    /\ ev' = [type |-> "step"]
    /\ UNCHANGED ghostVars
    /\ UNCHANGED reloadVars

NextReload ==
    \/ ReaderTop \/ ReaderTimeout \/ ReaderJoin \/ ReaderMessage \/ ReaderReload
    \/ SchedTop \/ SchedWork \/ SchedWake
    \/ Signal \/ ReloadConfig \/ Pause \/ PauseDone \/ PauseTimeout
    \/ DoSwap \/ Resume \/ ResumeDone \/ ResumeTimeout \/ Finish
    \/ ReloadTick
SpecReload == InitReload /\ [][NextReload]_vars

\* C7: a full hot reload requested while the bot is joined leaves users,
\* channel_users and the chat log as they were, and, unless one of its steps
\* fails, ends successfully with the pause lifted, the scheduler thread
\* alive, and the room's idle_chat_interval the one of the configuration file.
C7_HotReload ==
    [][ /\ ev'.type \in {"reload_config", "swap", "reload_end"} =>
              /\ users' = users
              /\ channel_users' = channel_users
              /\ chat_history' = chat_history
        /\ (ev'.type = "reload_end" /\ ev'.failed = "none") =>
              /\ ev'.ok
              /\ ~reload_paused'
              /\ threads'.sched.alive
              /\ Cfg(St', Room, "idle_chat_interval", 0) = NewIdle ]_vars

\* C8: when a step of the swap fails, the reload ends reporting failure with
\* the configuration, the subsystem instances and the command table that
\* were in effect when the reload was requested.
C8_RevertOnFailure ==
    [][ (ev'.type = "reload_end" /\ ev'.failed \notin {"none", "config"}) =>
              /\ ~ev'.ok
              /\ config' = pre.config
              /\ channels' = pre.channels
              /\ instances' = pre.instances
              /\ commands' = pre.commands ]_vars

\* C9: the swap begins only when neither the reader nor the scheduler is
\* marked processing, and a reload whose pause times out fails and has
\* swapped nothing.
C9_SwapAfterIdle ==
    [][ /\ ev'.type = "swap" => (~ev'.reader /\ ~ev'.sched)
        /\ (ev'.type = "reload_end" /\ ev'.timeout = "pause") =>
              /\ ~ev'.ok
              /\ instances' = pre.instances
              /\ commands' = pre.commands ]_vars

(***************************************************************************)
(* Command dispatch: a room whose users join, are opped, are described by  *)
(* WHOX replies and send command lines.  "say" is open to all, "sleep" to  *)
(* admins, "wake" to ops, and the room's own block disables "help".        *)
(***************************************************************************)
SpecCommands ==
    /\ Construct(("nick" :> V(BotNick)) @@
                 ("admins" :> V(<< <<"*", "!", "*", "@", "g">> >>)) @@
                 ("commands" :> D(("say" :> D("requires" :> V("any"))) @@
                                  ("sleep" :> D("requires" :> V("admin"))) @@
                                  ("wake" :> D("requires" :> V("op"))) @@
                                  ("help" :> D("enabled" :> V(TRUE))))),
                 << ("name" :> V(Room)) @@
                    ("commands" :> D("help" :> D("enabled" :> V(FALSE)))) >>)
    /\ [][\/ BotJoin(CommandTime)
          \/ UserJoin(CommandTime, {"x"}, {"h"})
          \/ Mode(CommandTime, {"x"})
          \/ Receive(CommandTime,
                     {FromServer("354", <<BotNick, "1", "u", "9", "g", "y", "H", "0", ":", "r">>)})
          \/ ChannelMessage(CommandTime, { <<"x", "h">>, <<"y", "g">> },
                            { <<"!", "say", "hi">>, <<"!", "sleep", "1">>,
                              <<"!", "wake">>, <<"!", "help">> },
                            { <<>> })
          \/ Tick(CommandTime)]_vars

\* What a command line must have written, given the user table s as
\* handle_line left it, the command's configuration cc for the room and the
\* verdict p of the permission check.
CommandOutcome(s, cc, p, name, nick, args) ==
    IF ~Get(cc, "enabled", V(TRUE)).v \/ ~p.ok
    THEN out' = <<>> /\ sleep_until' = sleep_until
    ELSE \E x \in {Execute(p.s, name, nick, Room, args)} :
            /\ sleep_until' = x.s.sleep_until
            /\ out' = IF x.response = <<>> THEN <<>>
                      ELSE << [cmd |-> "PRIVMSG", channel |-> Room, text |-> x.response] >>

ReferenceRule(is_admin, op, voice, requires) ==
    \/ is_admin
    \/ requires = "op" /\ op
    \/ requires = "voice" /\ (voice \/ op)
    \/ requires = "any"

\* C12: for a command that is enabled, the verdict of the permission check
\* equals the reference rule: an admin is always permitted, a non-admin is
\* denied for requires=admin, needs op for requires=op, voice or op for
\* requires=voice, and is always permitted for requires=any, whatever the
\* bot knows about the user.  The sender is an admin if nick!user@host of the
\* line matches an admin pattern.
C12_Authorization ==
    [][(ev'.type = "PRIVMSG" /\ ev'.joined /\ ev'.message[1] = "!")
        => \E s \in {TrackUser(St, ev'.nick, ev'.userhost)} :
           \E cc \in {GetChannelCommandConfig(s, Room, ev'.message[2])} :
           \E members \in {Get(s.channel_users, Room, EmptyDict)} :
              Get(cc, "enabled", V(TRUE)).v
              => CheckCommandPermissions(s, ev'.nick, Room, cc).ok
                 = ReferenceRule(AdminMatch(s, ev'.nick, ev'.userhost),
                                 ev'.nick \in DOMAIN members /\ members[ev'.nick].op,
                                 ev'.nick \in DOMAIN members /\ members[ev'.nick].voice,
                                 Get(cc, "requires", V("any")).v)]_vars

(***************************************************************************)
(* The roster: the bot and two users join, are listed, described, renamed, *)
(* opped, kicked and leave.                                                *)
(***************************************************************************)
RosterLines ==
    { FromUser(BotNick, "b", "JOIN", <<":", Room>>),
      FromUser("x", "h", "JOIN", <<":", Room>>),
      FromUser("x", "h", "PART", <<Room>>),
      FromUser("y", "h", "QUIT", <<":", "bye">>),
      FromUser("y", "h", "KICK", <<Room, "x", ":", "bye">>),
      FromUser(BotNick, "b", "NICK", <<":", "Z">>),
      FromServer("353", <<BotNick, "=", Room, ":", BotNick, "@x", "+y">>),
      FromServer("353", <<BotNick, "=", OtherRoom, ":", BotNick, "y">>),
      FromServer("366", <<BotNick, Room, ":", "End">>),
      FromServer("352", <<BotNick, Room, "u", "h", "srv", "x", "H@", ":", "0", "r">>),
      FromServer("354", <<BotNick, "1", "u", "h", "9", "x", "H", "0", ":", "r">>),
      FromServer("354", <<BotNick, "1", "u", "h", "9", "y", "H@", "a", ":", "r">>),
      FromUser("y", "h", "MODE", <<Room, "+bo", "m", "x">>),
      FromUser("y", "h", "MODE", <<Room, "+kv", "k", "x">>),
      FromUser("y", "h", "MODE", <<Room, "-o", "x">>) }

SpecRoster ==
    /\ Construct("nick" :> V(BotNick), << "name" :> V(Room), "name" :> V(OtherRoom) >>)
    /\ [][Receive(RosterTime, RosterLines) \/ Tick(RosterTime)]_vars

\* C13: after every roster line, the bot's current nick is a key of the
\* member table of every room the bot has joined, also after the bot's own
\* nick change.
C13_BotIsMember ==
    \A c \in DOMAIN channel_users : current_nick \in DOMAIN channel_users[c]

\* The member entry that a status string of '@' and '+' characters stands for.
FlagsOf(status) == [op |-> HasTok(status, "@"), voice |-> HasTok(status, "+")]

\* C17: a NAMES entry gives the listed user the op and voice flags of its
\* status prefix in the listed room; a WHOX reply
\* <mynick> <reserved> <user> <host> <ip> <nick> <flags> <account> :<realname>
\* leaves users[nick] with ident <user>, host <host> and account <account>
\* ("0" is none), gives the user the flags' op and voice in the room that was
\* asked about, and changes the user's flags in no other room.
C17_RosterSync ==
    [][/\ (ev'.type = "line" /\ ev'.line.command = "353")
          => \E k \in {ColonAt(ev'.line.params)} :
             \A i \in (k + 1)..Len(ev'.line.params) :
             \E c \in {Chars(ev'.line.params[i])} :
                channel_users'[ev'.line.params[k - 1]][c[Len(c)]] = FlagsOf(c)
       /\ (ev'.type = "line" /\ ev'.line.command = "354")
          => \E w \in {Words(ev'.line.params)} :
                /\ users'[w[6]].ident = <<w[3]>>
                /\ users'[w[6]].host = <<w[4]>>
                /\ users'[w[6]].account = IF w[8] = "0" THEN None ELSE w[8]
                /\ \A c \in DOMAIN channel_users :
                      w[6] \in DOMAIN channel_users[c]
                      => channel_users'[c][w[6]] =
                            IF c = Room THEN FlagsOf(Chars(w[7])) ELSE channel_users[c][w[6]]]_vars

\* The scan of a mode string in which each of o, v, b, k and l consumes one
\* parameter.
RECURSIVE ScanModes(_, _, _, _, _)
ScanModes(members, modes, mode_params, adding, param_index) ==
    IF modes = <<>> THEN members
    ELSE IF Head(modes) \in {"+", "-"}
    THEN ScanModes(members, Tail(modes), mode_params, Head(modes) = "+", param_index)
    ELSE IF Head(modes) \in {"o", "v", "b", "k", "l"} /\ param_index < Len(mode_params)
    THEN ScanModes(IF Head(modes) \in {"o", "v"}
                   THEN SetMode(members, Head(modes), mode_params[param_index + 1], adding)
                   ELSE members,
                   Tail(modes), mode_params, adding, param_index + 1)
    ELSE ScanModes(members, Tail(modes), mode_params, adding, param_index)

\* C18: a MODE line for a joined room leaves the room's members with the
\* flags of a left-to-right scan in which each of o, v, b, k, l consumes one
\* parameter: "+bo <mask> <nick>" ops <nick>, "+kv <key> <nick>" voices it.
C18_ModeParameters ==
    [][(ev'.type = "line" /\ ev'.line.command = "MODE" /\ Room \in DOMAIN channel_users)
        => \E w \in {Words(ev'.line.params)} :
              channel_users'[Room] =
                  ScanModes(channel_users[Room], Chars(w[2]), SubSeq(w, 3, Len(w)), TRUE, 0)]_vars

(***************************************************************************)
(* The chat log under reloads: the file on disk lowers chat_history, in    *)
(* the room's own entry or in the global tree.                             *)
(***************************************************************************)
\* handle_sighup: reload_config reads the file and calls update_config.
Sighup(horizon) ==
    /\ now <= StartTime + horizon
    /\ Commit(UpdateConfig([St EXCEPT !.out = <<>>], disk.config, disk.channels))
    /\ ev' = [type |-> "reload"]
    /\ UNCHANGED ghostVars
    /\ UNCHANGED reloadVars

SpecLog ==
    /\ \E file \in { [config |-> ("nick" :> V(BotNick)) @@ ("chat_history" :> V(LogSize)),
                      channels |-> << ("name" :> V(Room)) @@
                                      ("chat_history" :> V(LoweredSize)) >>],
                     [config |-> ("nick" :> V(BotNick)) @@ ("chat_history" :> V(LoweredSize)),
                      channels |-> << "name" :> V(Room) >>] } :
          ConstructWith(("nick" :> V(BotNick)) @@ ("chat_history" :> V(LogSize)),
                        << "name" :> V(Room) >>, file)
    /\ [][\/ BotJoin(LogTime)
          \/ ChannelMessage(LogTime, { <<"x", "h">>, <<"y", "h">> },
                            { <<"hi">>, <<"Q", ":", "hi">> }, { <<"ok">> })
          \/ Sighup(LogTime)
          \/ Tick(LogTime)]_vars

\* C14: after every append and every reload, the chat log of a room is no
\* longer than the history limit now configured for the room.
C14_LogBounded ==
    \A c \in DOMAIN chat_history :
        Len(chat_history[c]) <= Cfg(St, c, "chat_history", DefaultHistory)

(***************************************************************************)
(* Continuation past its window: ai_continue with a window of ContinueMins *)
(* minutes, over a time longer than the window.                            *)
(***************************************************************************)
SpecContinue ==
    /\ Construct("nick" :> V(BotNick),
                 << ("name" :> V(Room)) @@
                    ("chat_history" :> V(HistorySize)) @@
                    ("ai_continue" :> V(TRUE)) @@
                    ("ai_continue_mins" :> V(ContinueMins)) @@
                    ("ai_continue_freq" :> V(ContinueFreq)) >>)
    /\ [][\/ BotJoin(ContinueTime)
          \/ ChannelMessage(ContinueTime, { <<"x", "h">> }, { <<BotNick, ":", "hi">> },
                            { <<"ok">> })
          \/ SchedulerAt(ContinueTime)
          \/ Tick(ContinueTime)]_vars

\* C15: once the scheduler has run, a room has a next-continuation time only
\* if continuation is enabled for it and its last trigger is within the
\* continuation window; the entry is cleared when the window has lapsed.
C15_TimerWithinWindow ==
    ev.type = "sched"
    => \A c \in DOMAIN conversation_timers :
          /\ Cfg(St, c, "ai_continue", FALSE)
          /\ c \in DOMAIN last_trigger_times
          /\ now - last_trigger_times[c]
                <= Cfg(St, c, "ai_continue_mins", DefaultContinueMins) * SecondsPerMinute

(***************************************************************************)
(* The sliding windows: a room with floodpro and a privmsg_floodpro block; *)
(* users speak in the room and to the bot.                                 *)
(***************************************************************************)
SpecWindow ==
    /\ Construct(("nick" :> V(BotNick)) @@
                 ("privmsg_floodpro" :> D(("lines" :> V(FloodLines)) @@
                                          ("seconds" :> V(FloodSeconds)) @@
                                          ("ignore_time" :> V(BanMinutes)))),
                 << ("name" :> V(Room)) @@
                    ("floodpro" :> D(("lines" :> V(FloodLines)) @@
                                     ("seconds" :> V(FloodSeconds)) @@
                                     ("ban_time" :> V(BanMinutes)))) >>)
    /\ [][\/ BotJoin(WindowTime)
          \/ ChannelMessage(WindowTime, { <<"x", "h">> }, { <<"hi">> }, { <<>> })
          \/ Receive(WindowTime, {FromUser("y", "h", "PRIVMSG", <<BotNick, ":", "hi">>)})
          \/ Tick(WindowTime)]_vars

\* Every timestamp of the window is at most FloodSeconds older than t.
Recent(window, t) == \A i \in 1..Len(window) : t - window[i] <= FloodSeconds

\* C16: after a flood check at time now, the window stored for the room and
\* nick, or for the private sender, holds only timestamps t with now - t
\* within the configured seconds, and the room's window is no longer than
\* the number of the sender's scored messages of the last `seconds`.
C16_WindowRecent ==
    [][/\ (ev'.type = "PRIVMSG" /\ ev'.joined)
          => /\ Recent(channel_history'[Room][ev'.nick], now)
             /\ Len(channel_history'[Room][ev'.nick])
                  <= Cardinality({i \in 1..Len(arrivals'[ev'.nick]) :
                                     now - arrivals'[ev'.nick][i] <= FloodSeconds})
       /\ (ev'.type = "line" /\ ev'.line.command = "PRIVMSG")
          => Recent(privmsg_history'[ev'.line.prefix[1]], now)]_vars

\* A check has dropped a timestamp: the sender's earlier message is older
\* than the window and only the new timestamp is stored; and a private
\* sender's window holds the new timestamp alone after an older one.
C16_Witness ==
    /\ ev.type = "PRIVMSG" /\ ev.joined
    /\ Len(arrivals[ev.nick]) = 2
    /\ arrivals[ev.nick][1] < now - FloodSeconds
    /\ channel_history[Room][ev.nick] = <<now>>

(***************************************************************************)
(* Registration: the bot connects with SASL enabled, a user mode, two      *)
(* post-connect commands and two rooms, and the server's replies arrive.   *)
(***************************************************************************)
ConnectLines ==
    { FromServer("001", <<BotNick, ":", "Welcome">>),
      FromServer("376", <<BotNick, ":", "End">>),
      FromServer("422", <<BotNick, ":", "No", "MOTD">>),
      FromServer("433", <<"*", BotNick, ":", "in", "use">>),
      FromServer("903", <<BotNick, ":", "SASL", "ok">>),
      FromServer("904", <<BotNick, ":", "SASL", "failed">>),
      FromServer("CAP", <<"*", "LS", ":", "multi-prefix", "sasl">>),
      FromServer("CAP", <<"*", "LS", ":", "multi-prefix">>),
      FromServer("CAP", <<"*", "ACK", ":", "sasl">>),
      FromServer("CAP", <<"*", "NAK", ":", "sasl">>),
      FromServer("AUTHENTICATE", <<"+">>) }

\* A reply of the server on the connection that was opened.
ServerLine == ev.type # "init" /\ Receive(ConnectTime, ConnectLines)

SpecConnect ==
    /\ Construct(("nick" :> V(BotNick)) @@
                 ("usermode" :> V(<<"+x">>)) @@
                 ("post_connect_commands" :>
                     V(<< <<"PRIVMSG", "X", ":", "login", "$nick">>,
                          <<"MODE", "$nick", "+i">> >>)) @@
                 ("sasl" :> D(("enabled" :> V(TRUE)) @@
                              ("username" :> V("acct")) @@
                              ("password" :> V(<<"pw">>)))),
                 << ("name" :> V(Room)) @@ ("key" :> V(<<"k">>)),
                    "name" :> V(OtherRoom) >>)
    /\ [][\/ Connect(ConnectTime)
          \/ ServerLine
          \/ Tick(ConnectTime)]_vars

\* C19: 001 marks the connection registered, once, and writes
\* MODE <currentNick> <usermode>; a 376 or 422 that follows it writes the
\* post-connect commands in their order with $nick replaced by the current
\* nick and then one JOIN per configured room; a 376 or 422 before 001
\* writes nothing.
C19_Registration ==
    [][ev'.type = "line"
        => /\ ev'.line.command = "001"
              => /\ registration_complete'
                 /\ out' = IF registration_complete THEN <<>>
                           ELSE << [cmd |-> "MODE", nick |-> current_nick, mode |-> <<"+x">>] >>
           /\ ev'.line.command \in {"376", "422"}
              => out' = IF ~registration_complete THEN <<>>
                        ELSE << [cmd |-> "RAW",
                                 text |-> <<"PRIVMSG", "X", ":", "login", current_nick>>],
                                [cmd |-> "RAW", text |-> <<"MODE", current_nick, "+i">>],
                                [cmd |-> "JOIN", channel |-> Room, key |-> <<"k">>],
                                [cmd |-> "JOIN", channel |-> OtherRoom, key |-> <<>>] >>]_vars

\* The end of the MOTD has arrived after 001 on a connection whose nick is
\* the alternate one: the commands and the JOINs were written.
C19_Witness ==
    /\ ev.type = "line" /\ ev.line.command = "376"
    /\ current_nick = "Q_"
    /\ Len(out) = 4 /\ out[2].text = <<"MODE", "Q_", "+i">> /\ out[4].cmd = "JOIN"

\* C20: the reply ":<server> CAP * LS :<caps>" makes the bot write
\* CAP REQ :sasl, AUTHENTICATE PLAIN and AUTHENTICATE <base64 of
\* \0user\0pass> in that order if the caps hold sasl, and CAP END if not.
C20_CapLs ==
    [][(ev'.type = "line" /\ ev'.line.command = "CAP" /\ ev'.line.params[2] = "LS")
        => out' = IF HasTok(ev'.line.params, "sasl")
                  THEN << [cmd |-> "CAP", text |-> <<"REQ", ":", "sasl">>],
                          [cmd |-> "AUTHENTICATE", text |-> <<"PLAIN">>],
                          [cmd |-> "AUTHENTICATE", base64 |-> <<"\\0", "acct", "\\0", "pw">>] >>
                  ELSE << [cmd |-> "CAP", text |-> <<"END">>] >>]_vars

\* The place of a nick in the order primary, alternate, alternate1, ...
NickRank(n) ==
    CASE n = BotNick -> 0 [] n = "Q_" -> 1 [] n = "Q_1" -> 2 [] n = "Q_2" -> 3
      [] n = "Q_3" -> 4 [] OTHER -> 5

\* C21: a 433 before 001 makes the bot write one NICK line: the alternate
\* nick after the primary was refused, else the alternate nick with the next
\* suffix, so the nick written is later in the order than every nick refused
\* before; a 433 after 001 writes nothing and keeps the current nick.
C21_NickInUse ==
    [][(ev'.type = "line" /\ ev'.line.command = "433")
        => IF registration_complete
           THEN out' = <<>> /\ current_nick' = current_nick /\ nick_attempt' = nick_attempt
           ELSE /\ out' = << [cmd |-> "NICK", nick |-> current_nick'] >>
                /\ NickRank(current_nick') = NickRank(current_nick) + 1
                /\ current_nick = BotNick => current_nick' = "Q_"
                /\ current_nick # BotNick => nick_attempt' = nick_attempt + 1]_vars

\* The second 433 before 001 was answered with the alternate nick and the
\* suffix 1.
C21_Witness ==
    /\ ev.type = "line" /\ ev.line.command = "433" /\ ~registration_complete
    /\ nick_attempt = 1
    /\ out = << [cmd |-> "NICK", nick |-> "Q_1"] >>

(***************************************************************************)
(* utils/tokenbucket.py under two callers.  The reader thread and the      *)
(* scheduler thread both send through send_raw; get_token takes no lock,   *)
(* so the two calls interleave between the test of tokens and the load and *)
(* the store of `self.tokens -= 1.0`.  nsent counts the calls that         *)
(* returned a zero wait.                                                   *)
(***************************************************************************)
\* A step of thread t inside get_token changes the bucket and the thread.
TokenStep(t, tok, last, thread, zero) ==
    /\ Commit([St EXCEPT !.tokens = tok, !.last_update = last, !.out = <<>>])
    /\ threads' = [threads EXCEPT ![t] = thread]
    /\ nsent' = nsent + zero
    /\ ev' = [type |-> "token", thread |-> t]
    /\ UNCHANGED <<waited, idled, lastwait, arrivals, ban_hosts, burst, presence, inbox>>
    /\ UNCHANGED <<reload_paused, instances, disk, ctl, pre>>

\* get_token is entered and _add_tokens runs.
EnterGetToken(t) ==
    /\ threads[t].pc = "top"
    /\ nsent < MaxCalls
    /\ \E b \in {AddTokens(tokens, last_update, now)} :
          TokenStep(t, b.tokens, b.last_update, [pc |-> "test"], 0)

\* `if self.tokens >= 1.0`: without a token the call returns the time to
\* wait.
TestTokens(t) ==
    /\ threads[t].pc = "test"
    /\ TokenStep(t, tokens, last_update,
                 [pc |-> IF tokens >= 1 THEN "load" ELSE "top"], 0)

\* The load of `self.tokens -= 1.0`.
LoadTokens(t) ==
    /\ threads[t].pc = "load"
    /\ TokenStep(t, tokens, last_update, [pc |-> "store", loaded |-> tokens], 0)

\* The store of `self.tokens -= 1.0`, and `return 0.0`.
StoreTokens(t) ==
    /\ threads[t].pc = "store"
    /\ TokenStep(t, threads[t].loaded - 1, last_update, [pc |-> "top"], 1)

SpecRace ==
    /\ Construct(EmptyDict, <<>>)
    /\ [][\/ \E t \in {"reader", "sched"} :
                EnterGetToken(t) \/ TestTokens(t) \/ LoadTokens(t) \/ StoreTokens(t)
          \/ Idle]_vars

\* C22: get_token is atomic for concurrent callers: tokens is never
\* negative, and no more calls have returned a zero wait than tokens were
\* available, the capacity plus the refill of the time that passed.
C22_AtomicGetToken ==
    /\ tokens >= 0
    /\ nsent <= BurstSize + FillRate * (now - StartTime)

(***************************************************************************)
(* The admin cache: the account "a" is an admin, the file on disk names    *)
(* the nick x instead; WHOX replies give and take y's account, y and x     *)
(* use the admin-only command and the configuration is reloaded.           *)
(***************************************************************************)
SpecAdmin ==
    /\ ConstructWith(("nick" :> V(BotNick)) @@ ("admins" :> V(<< <<"a">> >>)) @@
                     ("commands" :> D("sleep" :> D("requires" :> V("admin")))),
                     << "name" :> V(Room) >>,
                     [config |-> ("nick" :> V(BotNick)) @@ ("admins" :> V(<< <<"x">> >>)) @@
                                 ("commands" :> D("sleep" :> D("requires" :> V("admin")))),
                      channels |-> << "name" :> V(Room) >>])
    /\ [][\/ BotJoin(AdminTime)
          \/ Receive(AdminTime,
                {FromServer("354", <<BotNick, "1", "u", "9", "g", "y", "H", "a", ":", "r">>),
                 FromServer("354", <<BotNick, "1", "u", "9", "g", "y", "H", "0", ":", "r">>),
                 FromServer("354", <<BotNick, "1", "u", "9", "g", "x", "H", "0", ":", "r">>)})
          \/ ChannelMessage(AdminTime, { <<"x", "g">>, <<"y", "g">> },
                            { <<"!", "sleep", "1">> }, { <<>> })
          \/ Sighup(AdminTime)
          \/ Tick(AdminTime)]_vars

\* The verdict of an is_admin call made with the cache key: served from an
\* entry younger than the cache's lifetime and left alone, or else computed
\* from the admin list in force and stored with the time of the call.
AdminVerdict(s, nick, userhost, key, verdict) ==
    IF key \in DOMAIN admin_cache /\ now - admin_cache[key].ts < CacheTtl
    THEN verdict = admin_cache[key].result /\ admin_cache' = admin_cache
    ELSE /\ verdict = AdminMatch(s, nick, userhost)
         /\ admin_cache' = Put(admin_cache, key, [result |-> verdict, ts |-> now])

\* C23: is_admin answers identical inputs with the result it computed for
\* them for the 60 s that follow, and a reload empties the cache and puts
\* the new admin list in force, so that the next call is computed from it.
\* The verdict is read off the admin-only command: it is answered iff the
\* sender was judged an admin.
C23_AdminCache ==
    [][/\ (ev'.type = "PRIVMSG" /\ ev'.joined /\ ev'.nick \in DOMAIN users
           /\ users[ev'.nick].ident # <<>>)
          => \E uh \in {users[ev'.nick].ident \o <<"@">> \o users[ev'.nick].host} :
                AdminVerdict(St, ev'.nick, uh, <<Lower(ev'.nick), uh>>, out' # <<>>)
       /\ ev'.type = "reload"
          => admin_cache' = EmptyDict /\ perm_config' = disk.config]_vars

\* y was judged an admin while its account was "a"; the account is gone but
\* the command is answered from the cached verdict.
C23_Witness ==
    /\ ev.type = "PRIVMSG" /\ ev.nick = "y" /\ out # <<>>
    /\ users["y"].account = None
    /\ <<"y", <<"u", "@", "g">> >> \in DOMAIN admin_cache
    /\ admin_cache[<<"y", <<"u", "@", "g">> >>].ts < now


(***************************************************************************)
(* Servers: three configured servers, connection attempts that fail or     *)
(* succeed, and connections that are lost.                                 *)
(***************************************************************************)
\* While an attempt is being made nothing else is scheduled: the thread
\* that lost the connection is inside connect().
ConnectSucceeds == ~connected /\ Connect(ServersTime)
ServerReply == connected /\ Receive(ServersTime, ConnectLines)
ConnectedTick == connected /\ Tick(ServersTime)
NextServers ==
    \/ ConnectSucceeds
    \/ ConnectFails(ServersTime)
    \/ Lost(ServersTime)
    \/ ReadError(ServersTime)
    \/ ServerReply
    \/ ConnectedTick
SpecServers ==
    /\ Construct(("nick" :> V(BotNick)) @@
                 ("servers" :> V(<<"s1", "s2", "s3">>)),
                 << ("name" :> V(Room)) >>)
    /\ [][NextServers]_vars

\* C24: on a failed connection attempt, on end of file and on an I/O error
\* of the reader the bot is marked disconnected, and the connection attempt
\* that follows a failed attempt or a lost connection uses the next server
\* of the list, modulo its length.
C24_NextServer ==
    [][/\ ev'.type \in {"connect_failed", "lost", "read_error"} => ~connected'
       /\ (ev.type \in {"connect_failed", "lost"}
             /\ ev'.type \in {"connect", "connect_failed"})
            => ev'.server = (ev.server + 1) % Len(servers)]_vars


(***************************************************************************)
(* Shutdown: the reader runs the die command while the scheduler is inside *)
(* an iteration, the main loop and the watchdog run beside them, and the   *)
(* exit thread ends the process ExitDelay seconds after the command.       *)
(***************************************************************************)
\* The process is there: the exit thread has not been started or still sleeps.
Alive == delayed_exit = 0 \/ now < delayed_exit

\* IRCBot.reconnect when the connection attempt succeeds.
Reconnect(s) ==
    JoinChannels([ConnectTo([s EXCEPT !.connected = FALSE],
                            Get(s.config, "sasl", D(EmptyDict)).d)
                  EXCEPT !.connected = TRUE, !.sock = "open"], 1)

\* IRCBot.send_raw when sendall raises on a closed socket: the token is
\* taken and slept for, nothing is written, and reconnect() is called.
SendRawClosed(s, g) ==
    Reconnect([s EXCEPT !.tokens = g.tokens, !.last_update = g.last_update,
                        !.now = s.now + g.wait])

\* send_channel_message on the socket as it is: send_raw swallows the
\* failure, so the bookkeeping after it runs either way.
SendChannelMessageOn(s, channel, message) ==
    IF message = <<>> THEN s
    ELSE IF s.sock = "closed"
    THEN AfterWritten(SendRawClosed(s, GetToken(s.tokens, s.last_update, s.now)),
                      channel, message, TRUE)
    ELSE SendChannelMessage(s, channel, message, TRUE)

\* The scheduler reaches get_response in _random_chat: the loop condition,
\* the membership and sleep checks and the idle-chat checks have passed.
IdleChatDue(s, channel_name) ==
    /\ IsInChannel(s, channel_name)
    /\ ~IsSleeping(s, channel_name).sleeping
    /\ IdleDue(s.now, Cfg(s, channel_name, "idle_chat_interval", 0),
               Cfg(s, channel_name, "idle_chat_time",
                   Cfg(s, channel_name, "idle_chat_interval", 0)),
               Get(s.last_chat_times, Lower(channel_name), 0))
    /\ RandomChat(s, channel_name, <<"ok">>) # s

\* The part of a scheduler iteration before the language model is asked for
\* the idle line of the room.
SchedulerAsks(horizon) ==
    /\ Alive
    /\ threads.sched.pc = "top"
    /\ running
    /\ Inbound(horizon)
    /\ IdleChatDue([St EXCEPT !.out = <<>>], Room)
    /\ Commit([IsSleeping(St, Room).s EXCEPT !.out = <<>>])
    /\ threads' = [threads EXCEPT !.sched.pc = "asked"]
    /\ ev' = [type |-> "sched_asks"]
    /\ UNCHANGED <<nsent, waited, idled, lastwait, arrivals, ban_hosts, presence, inbox>>
    /\ UNCHANGED <<reload_paused, instances, disk, ctl, pre>>

\* The language model answers and the iteration runs to its end: the line
\* is sent and the idle timer of the room is set to the iteration's time.
SchedulerAnswers ==
    /\ Alive
    /\ threads.sched.pc = "asked"
    /\ \E message \in { <<>>, <<"ok">> } :
        /\ Commit([SendChannelMessageOn([St EXCEPT !.out = <<>>], Room, message)
                     EXCEPT !.last_chat_times = Put(@, Lower(Room), now)])
        /\ ev' = [type |-> "sched_answers", message |-> message,
                  sleeping |-> IsSleeping(St, Room).sleeping, running |-> running]
    /\ threads' = [threads EXCEPT !.sched.pc = "top"]
    /\ UNCHANGED ghostVars
    /\ UNCHANGED <<reload_paused, instances, disk, ctl, pre>>

\* while self.running of random_actions_loop and of listen_loop is false.
ThreadExits ==
    /\ Alive
    /\ ~running
    /\ \E t \in {"reader", "sched"} :
        /\ threads[t].pc = "top"
        /\ threads' = [threads EXCEPT ![t].pc = "done"]
        /\ ev' = [type |-> "exit", thread |-> t]
    /\ Commit([St EXCEPT !.out = <<>>])
    /\ UNCHANGED ghostVars
    /\ UNCHANGED <<reload_paused, instances, disk, ctl, pre>>

\* MessageHandler._check_channels_loop, one pass: while the bot is connected
\* a JOIN is written for every configured room that has no member table.
RECURSIVE CheckChannels(_, _)
CheckChannels(s, i) ==
    IF i > Len(s.channels) THEN s
    ELSE IF \E c \in DOMAIN s.channel_users :
                Lower(c) = Lower(s.channels[i]["name"].v)
         THEN CheckChannels(s, i + 1)
         ELSE CheckChannels(SendRaw(s, [cmd |-> "JOIN",
                                        channel |-> Lower(s.channels[i]["name"].v),
                                        key |-> Get(s.channels[i], "key", V(<<>>)).v]),
                            i + 1)

WatchdogStep(horizon) ==
    /\ Alive
    /\ channel_check_thread
    /\ Inbound(horizon)
    /\ Commit(IF connected THEN CheckChannels([St EXCEPT !.out = <<>>], 1)
              ELSE [St EXCEPT !.out = <<>>])
    /\ ev' = [type |-> "watchdog", exits |-> FALSE]
    /\ UNCHANGED <<nsent, waited, idled, lastwait, arrivals, ban_hosts, inbox>>
    /\ UNCHANGED reloadVars

\* The step when the server's view of the bot is not followed.
Watchdog(horizon) == WatchdogStep(horizon) /\ UNCHANGED presence

\* run(): the first connect(), and the reconnect of the main loop.
MainConnects == Alive /\ ~connected /\ (FirstConnect \/ running) /\ Connect(DieTime)
\* A line of the room reaches the reader: its loop is running and the
\* socket is open.
ReaderLine ==
    /\ running /\ sock = "open"
    /\ threads.reader.pc = "top"
    /\ ChannelMessage(DieTime, { <<"x", "h">> }, { <<"hi">>, <<"!", "die">> }, { <<>> })
JoinEcho == running /\ sock = "open" /\ BotJoin(DieTime)
DieTick == Alive /\ Tick(DieTime)
\* The end of the MOTD on a registered connection starts the watchdog.
MotdEnd ==
    /\ running /\ sock = "open"
    /\ Receive(DieTime, { FromServer("001", <<BotNick, ":", "Welcome">>),
                          FromServer("376", <<BotNick, ":", "End">>) })
NextDie ==
    \/ MainConnects
    \/ MotdEnd
    \/ JoinEcho
    \/ ReaderLine
    \/ SchedulerAsks(DieTime)
    \/ SchedulerAnswers
    \/ ThreadExits
    \/ Watchdog(DieTime)
    \/ DieTick
SpecDie ==
    /\ Construct("nick" :> V(BotNick),
                 << ("name" :> V(Room)) @@ ("idle_chat_interval" :> V(IdleInterval)) >>)
    /\ [][NextDie]_vars

\* C25: once running is false no connection attempt is made and no JOIN is
\* written, and the step a loop takes next is its exit.
C25_StopsAfterDie ==
    [][~running =>
         /\ ~HasCmd(out', "JOIN")
         /\ ~connected'
         /\ ev'.type \in {"exit", "tick"}]_vars


(***************************************************************************)
(* The watchdog: one configured room, a connection that is opened, lost    *)
(* and reopened, the server's answers to JOIN, kicks, and the passes of    *)
(* the watchdog.  presence follows what the server holds for the bot.      *)
(***************************************************************************)
AllOut == [r \in {Room, OtherRoom} |-> "out"]

\* A JOIN for the room is among the lines written.
JoinWritten(lines, r) ==
    \E i \in 1..Len(lines) : lines[i].cmd = "JOIN" /\ Lower(lines[i].channel) = Lower(r)

\* The server's view after the lines written reach it: a JOIN for a room the
\* bot is out of is pending until the server answers it.
Requested(p, lines) ==
    [r \in DOMAIN p |-> IF p[r] = "out" /\ JoinWritten(lines, r) THEN "pending" ELSE p[r]]

WatchConnect ==
    /\ ~connected
    /\ ConnectStep(WatchTime)
    /\ presence' = Requested(AllOut, out')
WatchLost == LostStep(WatchTime) /\ presence' = AllOut
WatchRegistered ==
    /\ connected
    /\ ReceiveStep(WatchTime, { FromServer("001", <<BotNick, ":", "Welcome">>),
                                FromServer("376", <<BotNick, ":", "End">>) })
    /\ presence' = Requested(presence, out')
\* The server lets the bot in.
WatchJoined ==
    /\ connected /\ presence[Room] = "pending"
    /\ ReceiveStep(WatchTime, { FromUser(BotNick, "b", "JOIN", <<Room>>) })
    /\ presence' = [presence EXCEPT ![Room] = "in"]
\* The server refuses the JOIN: 474, banned from channel.
WatchRefused ==
    /\ connected /\ presence[Room] = "pending"
    /\ ReceiveStep(WatchTime, { FromServer("474", <<BotNick, Room, ":", "banned">>) })
    /\ presence' = [presence EXCEPT ![Room] = "out"]
WatchKicked ==
    /\ connected /\ presence[Room] = "in"
    /\ ReceiveStep(WatchTime, { FromUser("x", "h", "KICK", <<Room, BotNick, ":", "bye">>) })
    /\ presence' = [presence EXCEPT ![Room] = "out"]
WatchPass == WatchdogStep(WatchTime) /\ presence' = Requested(presence, out')
\* Time passes once run() has made its first connect().
WatchTick == ~FirstConnect /\ Tick(WatchTime)
NextWatch ==
    \/ WatchConnect
    \/ WatchLost
    \/ WatchRegistered
    \/ WatchJoined
    \/ WatchRefused
    \/ WatchKicked
    \/ WatchPass
    \/ WatchTick
SpecWatch ==
    /\ Construct("nick" :> V(BotNick), << ("name" :> V(Room)) >>)
    /\ [][NextWatch]_vars

\* C26: a pass of the watchdog made while the bot is connected writes a
\* JOIN for the configured room when the bot is out of it with no JOIN
\* pending, and writes none when the bot is in it.
C26_WatchdogRejoins ==
    [][(ev'.type = "watchdog" /\ connected) =>
         /\ presence[Room] = "out" => JoinWritten(out', Room)
         /\ presence[Room] = "in" => ~JoinWritten(out', Room)]_vars


(***************************************************************************)
(* Reloads that fail: the file on disk is unreadable, or lacks one of the  *)
(* keys update_config reads with new_config[key].  A file is the trees it  *)
(* holds, whether it can be read, and the required keys it lacks.          *)
(***************************************************************************)
\* The keys IRCBot.update_config reads with [], in the order it reads them.
RequiredKeys == <<"nick", "realname", "ident", "servers">>

\* self.<key> = new_config[key]
AssignKey(s, key, cfg) ==
    CASE key = "nick" -> [s EXCEPT !.nick = Get(cfg, "nick", V(BotNick)).v]
      [] key = "realname" -> [s EXCEPT !.realname = Get(cfg, "realname", V(DefaultIdentity)).v]
      [] key = "ident" -> [s EXCEPT !.ident = Get(cfg, "ident", V(DefaultIdentity)).v]
      [] OTHER -> [s EXCEPT !.servers = Get(cfg, "servers", V(<<"s1">>)).v]

\* The assignments of the core settings from the i-th on; a key the file
\* lacks raises KeyError and leaves what was assigned before it.
RECURSIVE AssignIdentity(_, _, _)
AssignIdentity(s, file, i) ==
    IF i > Len(RequiredKeys) THEN [s |-> s, raised |-> FALSE]
    ELSE IF RequiredKeys[i] \in file.lacks THEN [s |-> s, raised |-> TRUE]
    ELSE AssignIdentity(AssignKey(s, RequiredKeys[i], file.config), file, i + 1)

\* The component updates that follow: permissions.update_config, then
\* ai_client.update_config, which raises KeyError without ai_model, then the
\* rest of update_config.  r is what the assignments left.
UpdateComponents(r, file) ==
    IF r.raised THEN [s |-> r.s, ok |-> FALSE]
    ELSE IF "ai_model" \in file.lacks
    THEN [s |-> [r.s EXCEPT !.perm_config = file.config, !.admin_cache = EmptyDict],
          ok |-> FALSE]
    ELSE [s |-> UpdateConfig(r.s, file.config, file.channels), ok |-> TRUE]

\* IRCBot.reload_config: the file is read and update_config runs on it; any
\* exception is caught and False is returned.
TryReloadConfig(s, file) ==
    IF ~file.readable THEN [s |-> s, ok |-> FALSE]
    ELSE UpdateComponents(AssignIdentity([s EXCEPT !.config = file.config,
                                                   !.channels = file.channels],
                                         file, 1),
                          file)

\* handle_sighup on the file as it is on disk.
SighupFile(horizon) ==
    /\ now <= StartTime + horizon
    /\ \E r \in {TryReloadConfig([St EXCEPT !.out = <<>>], disk)} :
        /\ Commit(r.s)
        /\ ev' = [type |-> "reload_config", ok |-> r.ok]
    /\ UNCHANGED ghostVars
    /\ UNCHANGED reloadVars

NewGlobals ==
    ("nick" :> V("Q2")) @@ ("realname" :> V("new")) @@ ("ident" :> V("new")) @@
    ("servers" :> V(<<"s2">>)) @@ ("chat_history" :> V(LoweredSize))
NextReloadFail ==
    \/ SighupFile(ReloadFailTime)
    \/ BotJoin(ReloadFailTime)
    \/ ChannelMessage(ReloadFailTime, { <<"x", "h">> }, { <<"hi">> }, { <<>> })
    \/ Tick(ReloadFailTime)
SpecReloadFail ==
    /\ \E lacks \in {{}} \cup { {k} : k \in {"nick", "realname", "ident", "servers", "ai_model"} },
          readable \in BOOLEAN :
          ConstructWith("nick" :> V(BotNick), << "name" :> V(Room) >>,
                        [config |-> NewGlobals,
                         channels |-> << ("name" :> V(Room)) @@
                                         ("idle_chat_interval" :> V(IdleInterval)) >>,
                         readable |-> readable, lacks |-> lacks])
    /\ [][NextReloadFail]_vars

\* C27: a reload that reports failure leaves bot.config, bot.channels, the
\* identity settings and the configuration of every component as they were.
C27_AtomicReload ==
    [][(ev'.type = "reload_config" /\ ~ev'.ok) =>
         /\ config' = config /\ channels' = channels
         /\ self_nick' = self_nick /\ realname' = realname
         /\ ident' = ident /\ servers' = servers
         /\ perm_config' = perm_config
         /\ fp_config' = fp_config /\ fp_channels' = fp_channels]_vars


(***************************************************************************)
(* Rehash: the flood-protected room, a user who floods it, and SIGHUPs     *)
(* that reload the configuration the bot was started with.                 *)
(***************************************************************************)
NextRehash ==
    \/ BotJoin(RehashTime)
    \/ ChannelMessage(RehashTime, { <<"x", "h">> }, { <<"hi">> }, { <<>> })
    \/ Sighup(RehashTime)
    \/ Tick(RehashTime)
SpecRehash ==
    /\ Construct("nick" :> V(BotNick),
                 << ("name" :> V(Room)) @@
                    ("floodpro" :> D(("lines" :> V(FloodLines)) @@
                                     ("seconds" :> V(FloodSeconds)) @@
                                     ("ban_time" :> V(BanMinutes)))) >>)
    /\ [][NextRehash]_vars

\* C28: a successful configuration-only reload leaves the flood tables
\* (windows, bans, ignores), the member tables, the users and the sleep
\* deadlines as they were.
C28_RehashFrame ==
    [][ev'.type = "reload" =>
         /\ channel_history' = channel_history /\ privmsg_history' = privmsg_history
         /\ banned_users' = banned_users /\ ignored_users' = ignored_users
         /\ channel_users' = channel_users /\ users' = users
         /\ sleep_until' = sleep_until]_vars


(***************************************************************************)
(* Sleep: a room with idle chat, a user who chats, addresses the bot and   *)
(* sends sleep and wake, and the scheduler, whose iteration is split where *)
(* it waits for the language model.                                        *)
(***************************************************************************)
NextSleep ==
    \/ BotJoin(SleepTime)
    \/ ChannelMessage(SleepTime, { <<"x", "h">> },
                      { <<"hi">>, <<BotNick, ":", "hi">>, <<"!", "sleep", "1">>, <<"!", "wake">> },
                      { <<"ok">> })
    \/ SchedulerAsks(SleepTime)
    \/ SchedulerAnswers
    \/ Tick(SleepTime)
SpecSleep ==
    /\ Construct("nick" :> V(BotNick),
                 << ("name" :> V(Room)) @@ ("idle_chat_interval" :> V(IdleInterval)) >>)
    /\ [][NextSleep]_vars

\* now < sleep_until[room]
SleepWindow == Lower(Room) \in DOMAIN sleep_until /\ now < sleep_until[Lower(Room)]

\* C29: inside the sleep window of the room nothing generated is said in
\* it, neither by the scheduler nor in reply to a message that is no
\* command, however the reader and the scheduler interleave.
C29_SleepGate ==
    [][(/\ SleepWindow
        /\ \/ ev'.type = "sched_answers"
           \/ (ev'.type = "PRIVMSG" /\ ev'.message[1] # "!"))
         => ~HasCmd(out', "PRIVMSG")]_vars


(***************************************************************************)
(* Message splitting: send_channel_message on a post-processed text, a     *)
(* tuple of characters.  LineLimit stands for the 512 bytes of a line.     *)
(***************************************************************************)
Alphabet == {"a", " ", ".", "!"}
Texts == UNION { [1..n -> Alphabet] : n \in 1..MaxText }
RoomLen == 2        \* len("#r")

\* max_len = 512 - (len("PRIVMSG") + len(channel) + 4)
MaxLen == LineLimit - (7 + RoomLen + 4)

\* The bytes of "PRIVMSG <channel> :<chunk>\r\n".
LineBytes(chunk) == 7 + 1 + RoomLen + 2 + Len(chunk) + 2

\* str.rstrip() and str.lstrip() on the characters that occur.
RECURSIVE RStripText(_)
RStripText(str) ==
    IF str # <<>> /\ str[Len(str)] = " " THEN RStripText(SubSeq(str, 1, Len(str) - 1))
    ELSE str
RECURSIVE LStripText(_)
LStripText(str) ==
    IF str # <<>> /\ Head(str) = " " THEN LStripText(Tail(str)) ELSE str

\* str.rfind(sub, 0, end): the highest 0-based index at which sub lies
\* within str[0:end], -1 if there is none.
FoundAt(str, sub, end, m) ==
    /\ m >= 0 /\ m + Len(sub) <= end /\ m + Len(sub) <= Len(str)
    /\ SubSeq(str, m + 1, m + Len(sub)) = sub
RFind(str, sub, end) ==
    CHOOSE m \in -1..Len(str) :
        /\ m = -1 \/ FoundAt(str, sub, end, m)
        /\ \A k \in (m + 1)..Len(str) : ~FoundAt(str, sub, end, k)

\* The loop over '. ', '! ', '? ': a boundary replaces the split point when
\* its index is above the split point found so far.
Puncts == << <<".", " ">>, <<"!", " ">>, <<"?", " ">> >>
RECURSIVE SentenceSplit(_, _, _)
SentenceSplit(str, i, split_point) ==
    IF i > Len(Puncts) THEN split_point
    ELSE SentenceSplit(str, i + 1,
            IF RFind(str, Puncts[i], MaxLen - 1) > split_point
            THEN RFind(str, Puncts[i], MaxLen - 1) + Len(Puncts[i])
            ELSE split_point)

\* The split point of a text longer than max_len.
WordSplit(str, split_point) ==
    IF split_point # -1 THEN split_point
    ELSE IF RFind(str, <<" ">>, MaxLen) # -1 THEN RFind(str, <<" ">>, MaxLen)
    ELSE MaxLen
SplitPoint(str) == WordSplit(str, SentenceSplit(str, 1, -1))

\* The chunks the while loop of send_channel_message cuts, in order.
RECURSIVE Chunks(_)
CutAt(str, split_point) ==
    <<RStripText(SubSeq(str, 1, split_point))>>
        \o Chunks(LStripText(SubSeq(str, split_point + 1, Len(str))))
Chunks(str) ==
    IF str = <<>> THEN <<>>
    ELSE IF Len(str) > MaxLen THEN CutAt(str, SplitPoint(str))
    ELSE <<str>>

\* The body of the loop after the cut, chunk by chunk: the line is written
\* and the bookkeeping of a sent message follows.
RECURSIVE SendChunks(_, _, _)
SendChunks(s, channel, chunks) ==
    IF chunks = <<>> THEN s
    ELSE SendChunks(AfterWritten(SendRaw(s, [cmd |-> "PRIVMSG", channel |-> channel,
                                             text |-> Head(chunks)]),
                                 channel, Head(chunks), TRUE),
                    channel, Tail(chunks))

\* The text after the newline normalisation, strip() and format_message.
\* No character of Alphabet is a newline, a quote, '*' or '_', so that
\* only the strip changes a text here.
PostProcess(str) == LStripText(RStripText(str))

\* The language model returns a text, and the text is sent to the room.
Generate ==
    /\ ev.type = "init"
    /\ \E str \in Texts : ev' = [type |-> "generated", text |-> str]
    /\ Commit([St EXCEPT !.out = <<>>])
    /\ UNCHANGED ghostVars
    /\ UNCHANGED reloadVars
SendSplit ==
    /\ ev.type = "generated"
    /\ Commit(SendChunks([St EXCEPT !.out = <<>>], Room, Chunks(PostProcess(ev.text))))
    /\ ev' = [type |-> "split", text |-> PostProcess(ev.text)]
    /\ UNCHANGED ghostVars
    /\ UNCHANGED reloadVars
SpecSplit ==
    /\ Construct("nick" :> V(BotNick), << "name" :> V(Room) >>)
    /\ [][Generate \/ SendSplit]_vars

\* The characters of the lines written, in order, without the spaces.
RECURSIVE Written(_)
Written(lines) ==
    IF lines = <<>> THEN <<>>
    ELSE SelectSeq(Head(lines).text, LAMBDA c : c # " ") \o Written(Tail(lines))

\* The split point the rule names: after the last sentence boundary that
\* lies within max_len - 1 characters, else at the last space within
\* max_len, else at max_len.
IsBoundary(str, m) ==
    /\ m + 2 <= MaxLen - 1 /\ m + 2 <= Len(str)
    /\ SubSeq(str, m + 1, m + 2) \in {Puncts[i] : i \in 1..Len(Puncts)}
RuleSplit(str) ==
    IF \E m \in 0..Len(str) : IsBoundary(str, m)
    THEN 2 + CHOOSE m \in 0..Len(str) :
                 IsBoundary(str, m) /\ \A k \in (m + 1)..Len(str) : ~IsBoundary(str, k)
    ELSE WordSplit(str, -1)

\* C30: the text is written as PRIVMSG lines of at most LineLimit bytes
\* each, no character other than a space is lost, duplicated or moved, and
\* a text longer than max_len is first cut where the rule says.
C30_SplitMessage ==
    ev.type = "split" =>
        /\ \A i \in 1..Len(out) : out[i].cmd = "PRIVMSG" /\ LineBytes(out[i].text) <= LineLimit
        /\ Written(out) = SelectSeq(ev.text, LAMBDA c : c # " ")
        /\ Len(ev.text) > MaxLen =>
              out[1].text = RStripText(SubSeq(ev.text, 1, RuleSplit(ev.text)))

(***************************************************************************)
(* The reader and its buffer: the server writes lines in batches, recv     *)
(* hands them to listen_loop, and a reload requested by signal pauses the  *)
(* loop between two lines.  inbox keeps what the server sent, how much of  *)
(* it recv returned, and the lines handle_line was called with.            *)
(***************************************************************************)
\* What the server sends on the connection, in order.
Script ==
    << FromUser(BotNick, "b", "JOIN", <<":", Room>>),
       FromUser("x", "h", "PRIVMSG", <<Room, ":", "one">>),
       FromUser("x", "h", "PRIVMSG", <<Room, ":", "two">>) >>

\* run(): the first connect().
ReaderConnects == FirstConnect /\ ~connected /\ Connect(ReloadTime)

\* The server writes the next lines of the script, one or more at once.
ServerSends ==
    /\ connected /\ ~inbox.closed
    /\ \E k \in (Len(inbox.sent) + 1)..Len(Script) :
          inbox' = [inbox EXCEPT !.sent = SubSeq(Script, 1, k)]
    /\ ev' = [type |-> "server_sends"]
    /\ UNCHANGED <<botVars, nsent, waited, idled, lastwait, arrivals, ban_hosts, burst, presence>>
    /\ UNCHANGED reloadVars

\* The server closes the connection.
ServerCloses ==
    /\ connected /\ ~inbox.closed /\ inbox.drops < MaxDrops
    /\ inbox' = [inbox EXCEPT !.closed = TRUE, !.drops = @ + 1]
    /\ ev' = [type |-> "server_closes"]
    /\ UNCHANGED <<botVars, nsent, waited, idled, lastwait, arrivals, ban_hosts, burst, presence>>
    /\ UNCHANGED reloadVars

\* listen_loop: recv returns what has arrived; it is appended to the buffer.
RecvData ==
    /\ threads.reader.pc = "recv"
    /\ inbox.read < Len(inbox.sent)
    /\ threads' = [threads EXCEPT !.reader.pc = "lines",
                     !.reader.buffer = @ \o SubSeq(inbox.sent, inbox.read + 1, Len(inbox.sent))]
    /\ inbox' = [inbox EXCEPT !.read = Len(inbox.sent)]
    /\ ev' = [type |-> "recv"]
    /\ UNCHANGED <<botVars, nsent, waited, idled, lastwait, arrivals, ban_hosts, burst, presence>>
    /\ UNCHANGED <<reload_paused, instances, disk, ctl, pre>>

\* listen_loop: recv times out with nothing to read; back to the top.
RecvTimeout ==
    /\ threads.reader.pc = "recv"
    /\ inbox.read = Len(inbox.sent) /\ ~inbox.closed
    /\ ThreadStep([threads EXCEPT !.reader.is_processing = FALSE, !.reader.pc = "top"])

\* listen_loop: recv returns no data.  reconnect() opens a new connection,
\* whose connect() starts a new listen thread with an empty buffer, and
\* `break` ends this thread.
RecvEof ==
    /\ threads.reader.pc = "recv"
    /\ inbox.read = Len(inbox.sent) /\ inbox.closed
    /\ Commit(Reconnect([St EXCEPT !.out = <<>>]))
    /\ threads' = [threads EXCEPT !.reader = [pc |-> "top", is_processing |-> FALSE,
                                              buffer |-> <<>>]]
    /\ inbox' = [inbox EXCEPT !.closed = FALSE]
    /\ ev' = [type |-> "lost", server |-> current_server_index]
    /\ UNCHANGED <<nsent, waited, idled, lastwait, arrivals, ban_hosts, burst, presence>>
    /\ UNCHANGED <<reload_paused, instances, disk, ctl, pre>>

\* listen_loop, the inner while loop: with a complete line in the buffer and
\* no pause requested the line is cut off and handed to handle_line.
HandleNext ==
    /\ threads.reader.pc = "lines"
    /\ threads.reader.buffer # <<>> /\ ~reload_paused
    /\ Commit(HandleLine([St EXCEPT !.out = <<>>], Head(threads.reader.buffer),
                         [entrance |-> <<>>, response |-> <<>>, ai_delay |-> 0]))
    /\ threads' = [threads EXCEPT !.reader.buffer = Tail(@)]
    /\ inbox' = [inbox EXCEPT !.handled = Append(@, Head(threads.reader.buffer))]
    /\ ev' = [type |-> "line", line |-> Head(threads.reader.buffer)]
    /\ UNCHANGED <<nsent, waited, idled, lastwait, arrivals, ban_hosts, burst, presence>>
    /\ UNCHANGED <<reload_paused, instances, disk, ctl, pre>>

\* listen_loop: the inner loop ends, the buffer holding no complete line or
\* a pause being requested; `finally`, and back to the top.
LinesDone ==
    /\ threads.reader.pc = "lines"
    /\ threads.reader.buffer = <<>> \/ reload_paused
    /\ ThreadStep(ReaderDone(reload_paused))

NextReader ==
    \/ ReaderConnects \/ ServerSends \/ ServerCloses
    \/ ReaderTop \/ RecvData \/ RecvTimeout \/ RecvEof \/ HandleNext \/ LinesDone
    \/ SchedTop \/ SchedWork \/ SchedWake
    \/ Signal
    \/ Pause \/ PauseDone \/ DoSwap \/ Resume \/ ResumeDone \/ Finish
\* The reload meets its deadlines, the clock standing still while it runs.
SpecReader ==
    /\ Construct("nick" :> V(BotNick), << "name" :> V(Room) >>)
    /\ [][NextReader]_vars

\* C31: the lines handled, followed by the lines still in the reader's
\* buffer, are at all times the lines recv has returned, in the order
\* received; and with no reload in progress and no pause requested the
\* reader does not wait for more data while a complete line is in its
\* buffer.
C31_InOrderOnce ==
    /\ inbox.handled \o threads.reader.buffer = SubSeq(inbox.sent, 1, inbox.read)
    /\ (threads.reader.pc = "recv" /\ ~reload_paused /\ ctl.pc = "idle")
          => threads.reader.buffer = <<>>

(***************************************************************************)
(* Random actions: a room with random_action_interval set, the bot and a   *)
(* user that are opped, the user's messages, and scheduler iterations in   *)
(* which random.choice draws the kick or the topic.                        *)
(***************************************************************************)
\* An iteration of the scheduler with the action random.choice draws.
SchedulerDraws(horizon) ==
    /\ Inbound(horizon)
    /\ \E action \in {"kick", "topic"} :
        /\ Commit(RandomActionsIteration([St EXCEPT !.out = <<>>],
                    [idle |-> <<>>, action |-> action, topic |-> <<"t">>, cont |-> <<>>]))
        /\ ev' = [type |-> "sched_action", action |-> action]
    /\ UNCHANGED <<nsent, waited, idled, lastwait, arrivals, ban_hosts, presence, inbox>>
    /\ UNCHANGED reloadVars

NextKick ==
    \/ BotJoin(KickTime)
    \/ UserJoin(KickTime, {"x"}, {"h"})
    \/ Mode(KickTime, {BotNick, "x"})
    \/ ChannelMessage(KickTime, { <<"x", "h">> }, { <<"hi">> }, { <<>> })
    \/ SchedulerDraws(KickTime)
    \/ Tick(KickTime)
SpecKick ==
    /\ Construct("nick" :> V(BotNick),
                 << ("name" :> V(Room)) @@
                    ("random_action_interval" :> V(ActionInterval)) >>)
    /\ [][NextKick]_vars

\* The bot holds op in the room.
BotOp ==
    /\ Room \in DOMAIN channel_users
    /\ current_nick \in DOMAIN channel_users[Room]
    /\ channel_users[Room][current_nick].op

\* The scheduler reaches the draw of the room's random action: the bot is in
\* the room, awake and op, was not the last speaker, the action is due and
\* the room has been quiet for the interval.
DrawReached ==
    /\ IsInChannel(St, Room) /\ ~IsSleeping(St, Room).sleeping
    /\ ~WasLastSpeaker(St, Room)
    /\ ActionDue(now, ActionInterval, Get(last_action_times, Lower(Room), 0))
    /\ now - Get(last_chat_times, Lower(Room), 0) >= ActionInterval
    /\ BotOp

\* C32: a KICK of the scheduler is written only while the bot holds op, and
\* its target is a recent speaker who is a member, not the bot and not op;
\* when the kick is drawn and such a target exists a KICK is written, and
\* with no such target none is.
C32_RandomKick ==
    [][ev'.type = "sched_action" =>
         /\ \A i \in 1..Len(out') :
               out'[i].cmd = "KICK" => BotOp /\ out'[i].nick \in PossibleTargets(St, Room)
         /\ (DrawReached /\ ev'.action = "kick" /\ PossibleTargets(St, Room) # {})
               => HasCmd(out', "KICK")
         /\ PossibleTargets(St, Room) = {} => ~HasCmd(out', "KICK")]_vars

(***************************************************************************)
(* Renaming: one user on host h, in a room with floodpro configured, who   *)
(* speaks and changes nick between x and y.                                *)
(***************************************************************************)
\* The nicks under which the user is in the room's member table.
Present == {n \in {"x", "y"} : Room \in DOMAIN channel_users /\ n \in DOMAIN channel_users[Room]}

\* ":x!u@h JOIN #r": the user joins under its first nick.
RenameJoin == Present = {} /\ UserJoin(RenameTime, {"x"}, {"h"})
\* ":old!u@h NICK :new".
RenameNick ==
    Receive(RenameTime, {FromUser(n, "h", "NICK", <<":", m>>) :
                            n \in Present, m \in {"x", "y"} \ Present})
\* The user speaks under the nick it has.
RenameMessage ==
    ChannelMessage(RenameTime, {<<n, "h">> : n \in Present}, { <<"hi">> }, { <<>> })
NextRename ==
    \/ BotJoin(RenameTime)
    \/ RenameJoin
    \/ RenameNick
    \/ RenameMessage
    \/ Tick(RenameTime)
SpecRename ==
    /\ Construct("nick" :> V(BotNick),
                 << ("name" :> V(Room)) @@
                    ("floodpro" :> D(("lines" :> V(FloodLines)) @@
                                     ("seconds" :> V(FloodSeconds)) @@
                                     ("ban_time" :> V(BanMinutes)))) >>)
    /\ [][NextRename]_vars

\* The messages of the host, under either nick, that arrived within the
\* last FloodSeconds seconds and since the host's latest ban.
HostRecent ==
    {<<n, i>> \in {"x", "y"} \X (1..FloodLines) :
        i <= Len(arrivals[n]) /\ now - arrivals[n][i] <= FloodSeconds}

\* C33: the FloodLines-th message of a host within FloodSeconds seconds,
\* under whatever nicks its messages were sent, brings the ban.
C33_HostWindow ==
    [][(/\ ev'.type = "PRIVMSG" /\ ev'.joined
        /\ ~ev'.banned /\ ~ev'.covered
        /\ Cardinality(HostRecent) >= FloodLines - 1)
           => /\ HasCmd(out', "MODE") /\ HasCmd(out', "KICK")
              /\ ev'.nick \in DOMAIN banned_users'[Room]]_vars

(***************************************************************************)
(* Idle chat: a room with idle_chat_interval set and idle_chat_time unset, *)
(* below or above it; a user who speaks to the room and to the bot, and    *)
(* the iterations of the scheduler.                                        *)
(***************************************************************************)
IdleRooms ==
    {("name" :> V(Room)) @@ ("idle_chat_interval" :> V(ChatInterval)) @@ o :
        o \in Opt("idle_chat_time", {V(ShortIdle), V(LongIdle)})}

\* An iteration of the scheduler; idle is the language model's idle line.
\* The event keeps what was true when the iteration began.
SchedulerIdles(horizon) ==
    /\ Inbound(horizon)
    /\ \E idle \in { <<>>, <<"ok">> } :
        /\ Commit(RandomActionsIteration([St EXCEPT !.out = <<>>],
                    [idle |-> idle, action |-> "topic", topic |-> <<>>, cont |-> <<>>]))
        /\ ev' = [type |-> "sched_idle", idle |-> idle,
                  was_last |-> WasLastSpeaker(St, Room),
                  spoken |-> Get(chat_history, Lower(Room), <<>>) # <<>>]
    /\ UNCHANGED <<nsent, waited, idled, lastwait, arrivals, ban_hosts, presence, inbox>>
    /\ UNCHANGED reloadVars

NextIdle ==
    \/ BotJoin(IdleTime)
    \/ ChannelMessage(IdleTime, { <<"x", "h">> }, { <<"hi">>, <<BotNick, ":", "hi">> },
                      { <<"ok">> })
    \/ SchedulerIdles(IdleTime)
    \/ Tick(IdleTime)
SpecIdle ==
    /\ \E ch \in IdleRooms : Construct("nick" :> V(BotNick), <<ch>>)
    /\ [][NextIdle]_vars

\* The room is joined and awake and has idle chat configured.
IdleRoom ==
    /\ IsInChannel(St, Room) /\ ~IsSleeping(St, Room).sleeping
    /\ Cfg(St, Room, "idle_chat_interval", 0) > 0
\* The room's required idle time, idle_chat_time, by default the interval.
IdleRequired == Cfg(St, Room, "idle_chat_time", Cfg(St, Room, "idle_chat_interval", 0))
\* The time since the room's last chat.
SinceLastChat == now - Get(last_chat_times, Lower(Room), 0)
\* The PRIVMSG lines among the lines.
Said(lines) == SelectSeq(lines, LAMBDA l : l.cmd = "PRIVMSG")

\* What C34 says of a scheduler iteration, for the idle time `required`.
IdleRule(required) ==
    (ev'.type = "sched_idle" /\ IdleRoom) =>
        /\ (SinceLastChat >= required /\ ev'.was_last) => Said(out') = <<>>
        /\ (SinceLastChat >= required /\ ev'.spoken /\ ~ev'.was_last /\ ev'.idle # <<>>)
              => /\ Len(Said(out')) = 1
                 /\ Said(out')[1].text = ev'.idle
                 /\ last_chat_times'[Lower(Room)] = now
        /\ SinceLastChat < required => Said(out') = <<>>

\* C34 as stated: the idle time that must have elapsed is the room's
\* required idle time.
C34_IdleChatAsStated == [][IdleRule(IdleRequired)]_vars

\* C34: on a scheduler iteration for a joined, awake room with idle chat
\* configured, once both the required idle time and the idle_chat_interval
\* have elapsed since the room's last chat, nothing is said if the bot spoke
\* last, and one idle line is said and the last-chat time set to now if
\* someone else did; before that nothing is said.
C34_IdleChat == [][IdleRule(Max(IdleRequired, Cfg(St, Room, "idle_chat_interval", 0)))]_vars

\* An idle line was said after someone else had spoken last.
C34_Witness ==
    /\ ev.type = "sched_idle" /\ ev.spoken /\ ~ev.was_last
    /\ Said(out) # <<>>

(***************************************************************************)
(* Listen threads: the server closes the connection, and the reader, the   *)
(* scheduler's failing send and the main loop each enter reconnect().      *)
(* threads.connecting holds the threads inside connect(), and              *)
(* threads.listeners counts the listen loops that run.                     *)
(***************************************************************************)
\* run(): the first connect(); it starts the first listen thread.
ListenStart ==
    /\ FirstConnect /\ ~connected /\ threads.connecting = {}
    /\ Commit([ConnectTo([St EXCEPT !.out = <<>>], Get(config, "sasl", D(EmptyDict)).d)
                 EXCEPT !.connected = TRUE, !.sock = "open"])
    /\ threads' = [threads EXCEPT !.listeners = 1]
    /\ ev' = [type |-> "connect", again |-> FALSE, server |-> current_server_index]
    /\ UNCHANGED ghostVars
    /\ UNCHANGED <<reload_paused, instances, disk, ctl, pre>>

\* The server closes the connection.
ConnectionCloses ==
    /\ connected /\ sock = "open" /\ inbox.drops < MaxCloses
    /\ Commit([St EXCEPT !.sock = "closed", !.out = <<>>])
    /\ inbox' = [inbox EXCEPT !.drops = @ + 1]
    /\ ev' = [type |-> "server_closes"]
    /\ UNCHANGED <<nsent, waited, idled, lastwait, arrivals, ban_hosts, burst, presence>>
    /\ UNCHANGED reloadVars

\* send_raw up to the failing sendall: the token is taken and slept for.
TokenSpent(s, g) ==
    [s EXCEPT !.tokens = g.tokens, !.last_update = g.last_update, !.now = s.now + g.wait]

\* A thread enters reconnect(): connected is set to False and connect() is
\* called.  The reader enters it when recv returns no data, the main loop
\* when it finds connected False, the scheduler when sendall raises in the
\* send_raw of the room's idle line.
EntersReconnect ==
    /\ \E t \in {"main", "reader", "sched"} \ threads.connecting :
        /\ t = "main" => running /\ ~connected /\ ~FirstConnect
        /\ t = "reader" => threads.listeners > 0 /\ sock = "closed"
        /\ t = "sched" => sock = "closed" /\ IdleChatDue([St EXCEPT !.out = <<>>], Room)
        /\ threads' = [threads EXCEPT !.connecting = @ \cup {t}]
        /\ ev' = [type |-> "reconnect", thread |-> t]
        /\ Commit([(IF t = "sched"
                    THEN TokenSpent(St, GetToken(tokens, last_update, now))
                    ELSE St) EXCEPT !.connected = FALSE, !.out = <<>>])
    /\ UNCHANGED ghostVars
    /\ UNCHANGED <<reload_paused, instances, disk, ctl, pre>>

\* connect() returns in a thread: the socket is replaced, the opening lines
\* are written, a new listen thread is started, and reconnect() writes the
\* JOINs.  In the reader `break` then ends the loop that called it; in the
\* scheduler send_channel_message and the iteration go on after send_raw.
LeavesReconnect ==
    /\ \E t \in threads.connecting :
        /\ threads' = [threads EXCEPT !.connecting = @ \ {t},
                                      !.listeners = IF t = "reader" THEN @ ELSE @ + 1]
        /\ ev' = [type |-> "connect", again |-> TRUE, server |-> current_server_index]
        /\ Commit(IF t = "sched"
                  THEN [AfterWritten(Reconnect([St EXCEPT !.out = <<>>]), Room, <<"ok">>, TRUE)
                          EXCEPT !.last_chat_times = Put(@, Lower(Room), now)]
                  ELSE Reconnect([St EXCEPT !.out = <<>>]))
    /\ UNCHANGED ghostVars
    /\ UNCHANGED <<reload_paused, instances, disk, ctl, pre>>

\* The echo of the bot's JOIN.
ListenJoin == connected /\ sock = "open" /\ BotJoin(ConnectTime)

NextListen ==
    \/ ListenStart
    \/ ListenJoin
    \/ ConnectionCloses
    \/ EntersReconnect
    \/ LeavesReconnect
    \/ Tick(ConnectTime)
SpecListen ==
    /\ Construct("nick" :> V(BotNick),
                 << ("name" :> V(Room)) @@ ("idle_chat_interval" :> V(IdleInterval)) >>)
    /\ [][NextListen]_vars

\* C35: at most one listen loop runs, and at most one thread is inside
\* connect() replacing the socket.
C35_OneReader ==
    /\ threads.listeners <= 1
    /\ Cardinality(threads.connecting) <= 1


(***************************************************************************)
(* reload_modules and the pause flag.                                      *)
(***************************************************************************)
\* C36: whenever reload_modules returns (success, a failed swap, or a
\* timeout while waiting for the workers to pause) reload_paused is false
\* again and the scheduler thread is alive.
C36_PauseLifted ==
    [][ev'.type = "reload_end" => (~reload_paused' /\ threads'.sched.alive)]_vars


(***************************************************************************)
(* JOIN and registration.                                                  *)
(***************************************************************************)
\* C37: on every connection, reconnects included, a step that writes a JOIN
\* is made with 001 already received on the current connection: neither
\* reconnect() nor the watchdog writes JOIN while registration is incomplete.
C37_JoinAfterWelcome ==
    [][HasCmd(out', "JOIN") => registration_complete']_vars


(***************************************************************************)
(* Messages of a user whose ban is running.                                *)
(***************************************************************************)
\* C38: a flood detection writes its MODE +b / KICK pair once: a channel
\* message of a nick whose ban in the room is unexpired is dropped with no
\* MODE and no KICK written.
C38_BanPairOnce ==
    [][(ev'.type = "PRIVMSG" /\ ev'.joined /\ ev'.banned)
          => (~HasCmd(out', "MODE") /\ ~HasCmd(out', "KICK"))]_vars


(***************************************************************************)
(* Room membership across connections.                                     *)
(***************************************************************************)
\* The bot holds a member table for the room.
RoomEntry == \E c \in DOMAIN channel_users : Lower(c) = Lower(Room)

\* C39: while the bot is connected and the server has not (yet) let it into
\* the room on the current connection, the bot holds no entry for the room
\* and is_in_channel is false: membership learned on an earlier connection
\* is not kept across a reconnect.
C39_MembershipReset ==
    (connected /\ presence[Room] # "in") => (~RoomEntry /\ ~IsInChannel(St, Room))


(***************************************************************************)
(* Capability negotiation with SASL enabled.  The server answers what the  *)
(* bot writes as IRCv3 lays down: CAP LS with a list of capabilities,      *)
(* CAP REQ with ACK or NAK, AUTHENTICATE PLAIN with "+", the payload with  *)
(* 903 or one of 904-907, and CAP END with the welcome.  Its replies carry *)
(* the target "*" of an unregistered client and wait in a queue until the  *)
(* reader handles them.                                                    *)
(***************************************************************************)
\* The ways a server can answer: whether it advertises sasl, whether it
\* acknowledges the request, and the numeric that ends the authentication.
ServerProfiles ==
    [advertises : BOOLEAN, acks : BOOLEAN,
     result : {"903", "904", "905", "906", "907"}]

NewServer(profile) ==
    [profile |-> profile, queue |-> <<>>, acked |-> FALSE, authed |-> FALSE,
     registered |-> FALSE]

\* The server reads one line of the bot.
ServerReads(view, l) ==
    IF view.registered \/ l.cmd \notin {"CAP", "AUTHENTICATE"} THEN view
    ELSE IF l.cmd = "CAP" /\ l.text = <<"LS", "302">>
    THEN [view EXCEPT !.queue =
            Append(@, FromServer("CAP", IF view.profile.advertises
                                        THEN <<"*", "LS", ":", "multi-prefix", "sasl">>
                                        ELSE <<"*", "LS", ":", "multi-prefix">>))]
    ELSE IF l.cmd = "CAP" /\ l.text = <<"REQ", ":", "sasl">>
    THEN IF view.profile.advertises /\ view.profile.acks
         THEN [view EXCEPT !.acked = TRUE,
                           !.queue = Append(@, FromServer("CAP", <<"*", "ACK", ":", "sasl">>))]
         ELSE [view EXCEPT !.queue = Append(@, FromServer("CAP", <<"*", "NAK", ":", "sasl">>))]
    ELSE IF l.cmd = "CAP" /\ l.text = <<"END">>
    THEN [view EXCEPT !.registered = TRUE,
                      !.queue = @ \o << FromServer("001", <<BotNick, ":", "Welcome">>),
                                        FromServer("376", <<BotNick, ":", "End">>) >>]
    ELSE IF l.cmd = "AUTHENTICATE" /\ ~view.acked THEN view
    ELSE IF l.cmd = "AUTHENTICATE" /\ view.authed
    THEN [view EXCEPT !.queue = Append(@, FromServer("907", <<"*", ":", "already">>))]
    ELSE IF l.cmd = "AUTHENTICATE" /\ "text" \in DOMAIN l
    THEN [view EXCEPT !.queue = Append(@, FromServer("AUTHENTICATE", <<"+">>))]
    ELSE [view EXCEPT !.authed = view.profile.result = "903",
                      !.queue = Append(@, FromServer(view.profile.result,
                                                     <<"*", ":", "SASL">>))]

\* The server reads the lines the bot wrote, in their order.
RECURSIVE ServerReact(_, _, _)
ServerReact(view, lines, i) ==
    IF i > Len(lines) THEN view
    ELSE ServerReact(ServerReads(view, lines[i]), lines, i + 1)

\* connect(), and reconnect() after a loss, to a server of some profile.
SaslConnect ==
    /\ ~connected
    /\ ConnectStep(ConnectTime)
    /\ \E profile \in ServerProfiles :
          presence' = ServerReact(NewServer(profile), out', 1)

\* listen_loop hands the server's next reply to handle_line.
SaslDeliver ==
    /\ connected /\ presence.queue # <<>>
    /\ Commit(HandleLine([St EXCEPT !.out = <<>>], Head(presence.queue),
                         [entrance |-> <<>>, response |-> <<>>, ai_delay |-> 0]))
    /\ ev' = [type |-> "line", line |-> Head(presence.queue)]
    /\ presence' = ServerReact([presence EXCEPT !.queue = Tail(@)], out', 1)
    /\ UNCHANGED <<nsent, waited, idled, lastwait, arrivals, ban_hosts, burst, inbox>>
    /\ UNCHANGED reloadVars

SaslLost == LostStep(ConnectTime) /\ UNCHANGED presence
SaslTick == ~FirstConnect /\ Tick(ConnectTime)
NextSasl ==
    \/ SaslConnect
    \/ SaslDeliver
    \/ SaslLost
    \/ SaslTick

\* The reader handles every reply that has arrived.
SpecSasl ==
    /\ \E password \in { <<>>, <<"pw">> } :
          Construct(("nick" :> V(BotNick)) @@
                    ("sasl" :> D(("enabled" :> V(TRUE)) @@
                                 ("username" :> V("acct")) @@
                                 ("password" :> V(password)))),
                    << "name" :> V(Room) >>)
    /\ [][NextSasl]_vars
    /\ WF_vars(SaslDeliver)

\* CAP END is among the lines just written.
CapEndWritten ==
    \E i \in 1..Len(out) : out[i].cmd = "CAP" /\ out[i].text = <<"END">>

\* C40: with SASL enabled, every registration dialog that is not cut by the
\* loss of the connection eventually writes CAP END, whichever way the
\* negotiation goes (903, 904-907, sasl not advertised, CAP NAK, no
\* password configured).
C40_CapEndSent ==
    (ev.type = "connect") ~> (CapEndWritten \/ ~connected)

====
